---- MODULE Spec2Model ----
(***************************************************************************)
(* Reservation availability and status-transition engine of the hotel      *)
(* booking backend (reservations/services/reservation_service.py).         *)
(*                                                                         *)
(* Time is counted in slots: SlotsPerDay slots make one calendar day, so a *)
(* datetime is day * SlotsPerDay + slot and slot 0 is midnight.            *)
(***************************************************************************)
EXTENDS Integers, Sequences, FiniteSets, TLC

VARIABLES now, hotels, reservations, payments, transactions, checkout, last, procs

vars == <<now, hotels, reservations, payments, transactions, checkout, last, procs>>

----------------------------------------------------------------------------
(* Bounds of the exploration *)

SlotsPerDay == 2

MaxReservations == 2

MaxStatusReservations == 1

MaxDatedReservations == 1

MaxTicks == 2

MaxPayments == 2

MaxDatedPayments == 1

(* Program constants *)

MaxAdvanceDays == 365

----------------------------------------------------------------------------
(* Time *)

T(day, slot) == day * SlotsPerDay + slot

DayOf(t) == t \div SlotsPerDay

\* datetime.replace(hour=0, minute=0, second=0, microsecond=0)
Midnight(t) == DayOf(t) * SlotsPerDay

\* (b - a).days of a timedelta: whole days, rounded towards minus infinity
TimedeltaDays(a, b) == (b - a) \div SlotsPerDay

Today == 1

StartOfRun == T(Today, 0)

NoTime == 0 - 1

NoReason == "None"

----------------------------------------------------------------------------
(* The hotels collection: h1 and h2 exist, h9 is a well-formed id of no    *)
(* hotel. Rooms are sub-documents of the hotel.                            *)

Room(id, cap, price, avail) ==
    [room_id |-> id, capacity |-> cap, price_per_night |-> price, available |-> avail]

InitialHotels ==
    [h \in {"h1", "h2"} |->
        IF h = "h1"
        THEN [owner_id |-> "o1",
              rooms |-> <<Room("r1", 2, 100, TRUE), Room("r2", 1, 80, FALSE)>>]
        ELSE [owner_id |-> "o2",
              rooms |-> <<Room("r1", 3, 120, TRUE)>>]]

NoHotel == [owner_id |-> "None", rooms |-> <<>>]

NoRoom == Room("None", 0, 0, FALSE)

_get_hotel(hs, hotel_id) ==
    IF hotel_id \in DOMAIN hs THEN hs[hotel_id] ELSE NoHotel

\* rooms flagged as not available are passed over
_get_room_available_only(hotel, room_id) ==
    LET hits == {i \in 1..Len(hotel.rooms) :
                    hotel.rooms[i].room_id = room_id /\ hotel.rooms[i].available}
    IN  IF hits = {} THEN NoRoom
        ELSE hotel.rooms[CHOOSE i \in hits : \A j \in hits : i <= j]

_get_room(hotel, room_id) ==
    LET hits == {i \in 1..Len(hotel.rooms) : hotel.rooms[i].room_id = room_id}
    IN  IF hits = {} THEN NoRoom
        ELSE hotel.rooms[CHOOSE i \in hits : \A j \in hits : i <= j]

\* $set of the given fields on a document
SetFields(document, fields) ==
    [f \in DOMAIN document |-> IF f \in DOMAIN fields THEN fields[f] ELSE document[f]]

\* HotelService.update_hotel: the hotel is looked up by its id and its
\* owner, then update_data is written with $set
update_hotel(hs, hotel_id, update_data, owner_id) ==
    IF hotel_id \notin DOMAIN hs \/ hs[hotel_id].owner_id # owner_id
    THEN [error |-> "HotelNotFound", hotels |-> hs]
    ELSE [error |-> "OK", hotels |-> [hs EXCEPT ![hotel_id] = SetFields(@, update_data)]]

\* HotelService.update_room: rooms.$.key is written for every key of
\* room_data, on the first room with the room_id; an update that modifies
\* nothing returns None
update_room(hs, hotel_id, room_id, room_data, owner_id) ==
    IF hotel_id \notin DOMAIN hs \/ hs[hotel_id].owner_id # owner_id
    THEN [error |-> "HotelNotFound", hotels |-> hs]
    ELSE LET rooms == hs[hotel_id].rooms
             hits == {i \in 1..Len(rooms) : rooms[i].room_id = room_id}
             first == CHOOSE i \in hits : \A j \in hits : i <= j
         IN  IF hits = {}
             THEN [error |-> "RoomNotModified", hotels |-> hs]
             ELSE [error |-> "OK",
                   hotels |-> [hs EXCEPT ![hotel_id].rooms[first] = SetFields(@, room_data)]]

----------------------------------------------------------------------------
(* Reservation documents *)

STATUS_CHOICES == {"pending", "confirmed", "cancelled", "completed", "rejected"}

PAYMENT_STATUS_CHOICES == {"pending", "paid", "refunded", "failed"}

\* uuid4 of get_default_document: a fresh identifier, no well-formed storage key
Uuid(n) == <<"uuid", n>>

\* the storage key (_id) of the n-th inserted document
Oid(n) == <<"oid", n>>

get_default_document(n, t) ==
    [reservation_id |-> Uuid(n),
     hotel_id |-> "None", room_id |-> "None", guest_id |-> "None", owner_id |-> "None",
     check_in |-> NoTime, check_out |-> NoTime, nights |-> 0,
     number_of_guests |-> 1, price_per_night |-> 0, total_price |-> 0,
     status |-> "pending", payment_status |-> "pending",
     cancellation_reason |-> NoReason,
     created_at |-> t, updated_at |-> t, cancelled_at |-> NoTime, confirmed_at |-> NoTime]

\* an insert that refuses a stay overlapping an active stay of the room
insert_one_exclusive(res, document) ==
    IF \E i \in 1..Len(res) :
            /\ res[i].hotel_id = document.hotel_id
            /\ res[i].room_id = document.room_id
            /\ res[i].status \in {"pending", "confirmed"}
            /\ res[i].check_in < document.check_out
            /\ document.check_in < res[i].check_out
    THEN [error |-> "DuplicateKey", store |-> res]
    ELSE [error |-> "OK", store |-> Append(res, document)]

\* collection.insert_one under the unique index on reservation_id, the only
\* constraint create_indexes declares
insert_one(res, document) ==
    IF \E i \in 1..Len(res) : res[i].reservation_id = document.reservation_id
    THEN [error |-> "DuplicateKey", store |-> res]
    ELSE [error |-> "OK", store |-> Append(res, document)]

----------------------------------------------------------------------------
(* Availability *)

\* a stay that ends on the day the query starts counted as a conflict
ConflictsClosedEnd(doc, check_in, check_out) ==
    \/ (doc.check_in <= check_in /\ doc.check_out >= check_in)
    \/ (doc.check_in < check_out /\ doc.check_out >= check_out)
    \/ (doc.check_in >= check_in /\ doc.check_out <= check_out)

\* the $or of the query: starts inside, ends inside, or wraps the stored range
Conflicts(doc, check_in, check_out) ==
    \/ (doc.check_in <= check_in /\ doc.check_out > check_in)
    \/ (doc.check_in < check_out /\ doc.check_out >= check_out)
    \/ (doc.check_in >= check_in /\ doc.check_out <= check_out)

\* only confirmed reservations counted as blocking
ConflictingConfirmedOnly(res, hotel_id, room_id, check_in, check_out, exclude) ==
    {i \in 1..Len(res) :
        /\ res[i].hotel_id = hotel_id
        /\ res[i].room_id = room_id
        /\ res[i].status \in {"confirmed"}
        /\ Conflicts(res[i], check_in, check_out)
        /\ (exclude # <<>> => res[i].reservation_id # exclude)}

\* reservations of every status counted as blocking
ConflictingAnyStatus(res, hotel_id, room_id, check_in, check_out, exclude) ==
    {i \in 1..Len(res) :
        /\ res[i].hotel_id = hotel_id
        /\ res[i].room_id = room_id
        /\ Conflicts(res[i], check_in, check_out)
        /\ (exclude # <<>> => res[i].reservation_id # exclude)}

ConflictingReservations(res, hotel_id, room_id, check_in, check_out, exclude) ==
    {i \in 1..Len(res) :
        /\ res[i].hotel_id = hotel_id
        /\ res[i].room_id = room_id
        /\ res[i].status \in {"pending", "confirmed"}
        /\ Conflicts(res[i], check_in, check_out)
        /\ (exclude # <<>> => res[i].reservation_id # exclude)}

check_availability(res, hotel_id, room_id, check_in, check_out, exclude) ==
    Cardinality(ConflictingReservations(res, hotel_id, room_id, check_in, check_out, exclude)) = 0

----------------------------------------------------------------------------
(* Date validation *)

\* the times of day left in: neither now nor check_in is cut to midnight
_validate_dates_not_normalised(t, check_in, check_out) ==
    LET max_date == t + MaxAdvanceDays * SlotsPerDay
    IN  IF check_in < t THEN "CheckInPast"
        ELSE IF check_out <= check_in THEN "CheckOutNotAfter"
        ELSE IF check_in > max_date THEN "TooFarAhead"
        ELSE "OK"

_validate_dates(t, check_in, check_out) ==
    LET today_midnight == Midnight(t)
        check_in_midnight == Midnight(check_in)
        max_date == today_midnight + MaxAdvanceDays * SlotsPerDay
    IN  IF check_in_midnight < today_midnight THEN "CheckInPast"
        ELSE IF check_out <= check_in THEN "CheckOutNotAfter"
        ELSE IF check_in_midnight > max_date THEN "TooFarAhead"
        ELSE "OK"

----------------------------------------------------------------------------
(* Capacity *)

\* one guest more than the capacity let in
ExceedsCapacityByTwo(reservation_data, room) ==
    reservation_data.number_of_guests > room.capacity + 1

\* reservation_data.get('number_of_guests', 1) > room.get('capacity', 1)
ExceedsCapacity(reservation_data, room) ==
    reservation_data.number_of_guests > room.capacity

\* create_reservation with the capacity looked at before the availability
create_reservation_capacity_first(reservation_data, guest_id, res, hs, t, n) ==
    LET hotel == _get_hotel(hs, reservation_data.hotel_id)
        room == _get_room(hotel, reservation_data.room_id)
        check_in == reservation_data.check_in
        check_out == reservation_data.check_out
        dates == _validate_dates(t, check_in, check_out)
        nights == TimedeltaDays(check_in, check_out)
        document ==
            [get_default_document(n, t) EXCEPT
                !.hotel_id = reservation_data.hotel_id,
                !.room_id = reservation_data.room_id,
                !.guest_id = guest_id,
                !.owner_id = hotel.owner_id,
                !.check_in = check_in,
                !.check_out = check_out,
                !.nights = nights,
                !.number_of_guests = reservation_data.number_of_guests,
                !.price_per_night = room.price_per_night,
                !.total_price = nights * room.price_per_night,
                !.status = "pending",
                !.payment_status = "pending",
                !.created_at = t,
                !.updated_at = t]
        fail(e) == [error |-> e, document |-> get_default_document(0, NoTime)]
    IN  IF hotel = NoHotel THEN fail("HotelNotFound")
        ELSE IF room = NoRoom THEN fail("RoomNotFound")
        ELSE IF dates # "OK" THEN fail(dates)
        ELSE IF ExceedsCapacity(reservation_data, room) THEN fail("OverCapacity")
        ELSE IF ~check_availability(res, reservation_data.hotel_id, reservation_data.room_id,
                                    check_in, check_out, <<>>)
             THEN fail("NotAvailable")
        ELSE [error |-> "OK", document |-> document]

----------------------------------------------------------------------------
(* create_reservation: the checks in the order of the code, then the       *)
(* document that insert_one receives. n numbers the uuid4 drawn.           *)

create_reservation(reservation_data, guest_id, res, hs, t, n) ==
    LET hotel == _get_hotel(hs, reservation_data.hotel_id)
        room == _get_room(hotel, reservation_data.room_id)
        check_in == reservation_data.check_in
        check_out == reservation_data.check_out
        dates == _validate_dates(t, check_in, check_out)
        nights == TimedeltaDays(check_in, check_out)
        price_per_night == room.price_per_night
        total_price == nights * price_per_night
        document ==
            [get_default_document(n, t) EXCEPT
                !.hotel_id = reservation_data.hotel_id,
                !.room_id = reservation_data.room_id,
                !.guest_id = guest_id,
                !.owner_id = hotel.owner_id,
                !.check_in = check_in,
                !.check_out = check_out,
                !.nights = nights,
                !.number_of_guests = reservation_data.number_of_guests,
                !.price_per_night = price_per_night,
                !.total_price = total_price,
                !.status = "pending",
                !.payment_status = "pending",
                !.created_at = t,
                !.updated_at = t]
        fail(e) == [error |-> e, document |-> get_default_document(0, NoTime)]
    IN  IF hotel = NoHotel THEN fail("HotelNotFound")
        ELSE IF room = NoRoom THEN fail("RoomNotFound")
        ELSE IF dates # "OK" THEN fail(dates)
        ELSE IF ~check_availability(res, reservation_data.hotel_id, reservation_data.room_id,
                                    check_in, check_out, <<>>)
             THEN fail("NotAvailable")
        ELSE IF ExceedsCapacity(reservation_data, room) THEN fail("OverCapacity")
        ELSE [error |-> "OK", document |-> document]

----------------------------------------------------------------------------
(* Checkout: validate_and_compute_for_checkout persists nothing and        *)
(* returns the computed bundle; create_reservation_after_payment persists  *)
(* the bundle as it is, with payment_status paid.                          *)

NoBundle ==
    [hotel_id |-> "None", room_id |-> "None", check_in |-> NoTime, check_out |-> NoTime,
     nights |-> 0, number_of_guests |-> 0, price_per_night |-> 0, total_price |-> 0,
     owner_id |-> "None"]

\* the capacity check left out
validate_and_compute_for_checkout_no_capacity(reservation_data, res, hs, t) ==
    LET hotel == _get_hotel(hs, reservation_data.hotel_id)
        room == _get_room(hotel, reservation_data.room_id)
        check_in == reservation_data.check_in
        check_out == reservation_data.check_out
        dates == _validate_dates(t, check_in, check_out)
        nights == TimedeltaDays(check_in, check_out)
        price_per_night == room.price_per_night
        total_price == nights * price_per_night
        fail(e) == [error |-> e, computed |-> NoBundle]
    IN  IF hotel = NoHotel THEN fail("HotelNotFound")
        ELSE IF room = NoRoom THEN fail("RoomNotFound")
        ELSE IF dates # "OK" THEN fail(dates)
        ELSE IF ~check_availability(res, reservation_data.hotel_id, reservation_data.room_id,
                                    check_in, check_out, <<>>)
             THEN fail("NotAvailable")
        ELSE [error |-> "OK",
              computed |->
                [hotel_id |-> reservation_data.hotel_id,
                 room_id |-> reservation_data.room_id,
                 check_in |-> check_in,
                 check_out |-> check_out,
                 nights |-> nights,
                 number_of_guests |-> reservation_data.number_of_guests,
                 price_per_night |-> price_per_night,
                 total_price |-> total_price,
                 owner_id |-> hotel.owner_id]]

validate_and_compute_for_checkout(reservation_data, res, hs, t) ==
    LET hotel == _get_hotel(hs, reservation_data.hotel_id)
        room == _get_room(hotel, reservation_data.room_id)
        check_in == reservation_data.check_in
        check_out == reservation_data.check_out
        dates == _validate_dates(t, check_in, check_out)
        nights == TimedeltaDays(check_in, check_out)
        price_per_night == room.price_per_night
        total_price == nights * price_per_night
        fail(e) == [error |-> e, computed |-> NoBundle]
    IN  IF hotel = NoHotel THEN fail("HotelNotFound")
        ELSE IF room = NoRoom THEN fail("RoomNotFound")
        ELSE IF dates # "OK" THEN fail(dates)
        ELSE IF ~check_availability(res, reservation_data.hotel_id, reservation_data.room_id,
                                    check_in, check_out, <<>>)
             THEN fail("NotAvailable")
        ELSE IF ExceedsCapacity(reservation_data, room) THEN fail("OverCapacity")
        ELSE [error |-> "OK",
              computed |->
                [hotel_id |-> reservation_data.hotel_id,
                 room_id |-> reservation_data.room_id,
                 check_in |-> check_in,
                 check_out |-> check_out,
                 nights |-> nights,
                 number_of_guests |-> reservation_data.number_of_guests,
                 price_per_night |-> price_per_night,
                 total_price |-> total_price,
                 owner_id |-> hotel.owner_id]]

\* payment_status left at the default of the document
create_reservation_after_payment_unpaid(computed_data, guest_id, reservation_id, t, n) ==
    [get_default_document(n, t) EXCEPT
        !.reservation_id = reservation_id,
        !.hotel_id = computed_data.hotel_id,
        !.room_id = computed_data.room_id,
        !.guest_id = guest_id,
        !.owner_id = computed_data.owner_id,
        !.check_in = computed_data.check_in,
        !.check_out = computed_data.check_out,
        !.nights = computed_data.nights,
        !.number_of_guests = computed_data.number_of_guests,
        !.price_per_night = computed_data.price_per_night,
        !.total_price = computed_data.total_price,
        !.status = "pending",
        !.created_at = t,
        !.updated_at = t]

create_reservation_after_payment(computed_data, guest_id, reservation_id, t, n) ==
    [get_default_document(n, t) EXCEPT
        !.reservation_id = reservation_id,
        !.hotel_id = computed_data.hotel_id,
        !.room_id = computed_data.room_id,
        !.guest_id = guest_id,
        !.owner_id = computed_data.owner_id,
        !.check_in = computed_data.check_in,
        !.check_out = computed_data.check_out,
        !.nights = computed_data.nights,
        !.number_of_guests = computed_data.number_of_guests,
        !.price_per_night = computed_data.price_per_night,
        !.total_price = computed_data.total_price,
        !.status = "pending",
        !.payment_status = "paid",
        !.created_at = t,
        !.updated_at = t]

----------------------------------------------------------------------------
(* Status transitions *)

\* a confirmed reservation may still be rejected
valid_transitions_reject_confirmed(current_status) ==
    CASE current_status = "pending" -> {"confirmed", "cancelled", "rejected"}
      [] current_status = "confirmed" -> {"cancelled", "completed", "rejected"}
      [] OTHER -> {}

valid_transitions(current_status) ==
    CASE current_status = "pending" -> {"confirmed", "cancelled", "rejected"}
      [] current_status = "confirmed" -> {"cancelled", "completed"}
      [] current_status = "cancelled" -> {}
      [] current_status = "completed" -> {}
      [] current_status = "rejected" -> {}
      [] OTHER -> {}

\* a status may always be written again
_validate_status_transition_same_allowed(current_status, new_status) ==
    IF new_status \notin valid_transitions(current_status) \cup {current_status}
    THEN "InvalidTransition" ELSE "OK"

_validate_status_transition(current_status, new_status) ==
    IF new_status \notin valid_transitions(current_status) THEN "InvalidTransition" ELSE "OK"

\* ObjectId(reservation_id) accepts only a well-formed storage key
WellFormedObjectId(id) == id[1] = "oid"

\* find_one({'_id': ObjectId(id)}), then find_one({'reservation_id': id});
\* 0 stands for no document
FindReservation(res, id) ==
    LET by_key == {i \in 1..Len(res) : Oid(i) = id}
        by_rid == {i \in 1..Len(res) : res[i].reservation_id = id}
    IN  IF by_key # {} THEN CHOOSE i \in by_key : TRUE
        ELSE IF by_rid # {} THEN CHOOSE i \in by_rid : \A j \in by_rid : i <= j
        ELSE 0

\* the owner's id is not compared
CheckPermissionAnyOwner(reservation, new_status, user_id, user_type) ==
    IF user_type = "guest"
    THEN IF reservation.guest_id # user_id THEN "NoPermission"
         ELSE IF new_status \notin {"cancelled"} THEN "GuestsOnlyCancel"
         ELSE "OK"
    ELSE IF user_type = "owner"
    THEN IF new_status \notin {"confirmed", "rejected", "completed"} THEN "OwnersOnlyConfirm"
         ELSE "OK"
    ELSE "OK"

\* the role gate of update_reservation_status: no branch for any other role
CheckPermission(reservation, new_status, user_id, user_type) ==
    IF user_type = "guest"
    THEN IF reservation.guest_id # user_id THEN "NoPermission"
         ELSE IF new_status \notin {"cancelled"} THEN "GuestsOnlyCancel"
         ELSE "OK"
    ELSE IF user_type = "owner"
    THEN IF reservation.owner_id # user_id THEN "NoPermission"
         ELSE IF new_status \notin {"confirmed", "rejected", "completed"} THEN "OwnersOnlyConfirm"
         ELSE "OK"
    ELSE "OK"

\* every transition by the owner stamps confirmed_at
UpdatedDocumentStampsOwner(reservation, new_status, cancellation_reason, t) ==
    LET base == [reservation EXCEPT !.status = new_status, !.updated_at = t]
    IN  IF new_status = "cancelled"
        THEN IF cancellation_reason \notin {NoReason, ""}
             THEN [base EXCEPT !.cancelled_at = t, !.cancellation_reason = cancellation_reason]
             ELSE [base EXCEPT !.cancelled_at = t]
        ELSE [base EXCEPT !.confirmed_at = t]

\* the $set of update_one
UpdatedDocument(reservation, new_status, cancellation_reason, t) ==
    LET base == [reservation EXCEPT !.status = new_status, !.updated_at = t]
    IN  IF new_status = "cancelled"
        THEN IF cancellation_reason \notin {NoReason, ""}
             THEN [base EXCEPT !.cancelled_at = t, !.cancellation_reason = cancellation_reason]
             ELSE [base EXCEPT !.cancelled_at = t]
        ELSE IF new_status = "confirmed"
        THEN [base EXCEPT !.confirmed_at = t]
        ELSE base

\* the transition table consulted before the role gate
update_reservation_status_table_first(res, reservation_id, new_status, user_id, user_type, cancellation_reason, t) ==
    LET i == FindReservation(res, reservation_id)
        permission == CheckPermission(res[i], new_status, user_id, user_type)
        transition == _validate_status_transition(res[i].status, new_status)
        fail(e) == [error |-> e, found |-> i, store |-> res]
    IN  IF ~WellFormedObjectId(reservation_id) THEN [error |-> "InvalidId", found |-> 0, store |-> res]
        ELSE IF i = 0 THEN fail("ReservationNotFound")
        ELSE IF transition # "OK" THEN fail(transition)
        ELSE IF permission # "OK" THEN fail(permission)
        ELSE [error |-> "OK", found |-> i,
              store |-> [res EXCEPT ![i] =
                            UpdatedDocument(res[i], new_status, cancellation_reason, t)]]

\* the outcome of update_reservation_status on the store res:
\* the error and the store after the call
update_reservation_status(res, reservation_id, new_status, user_id, user_type, cancellation_reason, t) ==
    LET i == FindReservation(res, reservation_id)
        permission == CheckPermission(res[i], new_status, user_id, user_type)
        transition == _validate_status_transition(res[i].status, new_status)
        fail(e) == [error |-> e, found |-> i, store |-> res]
    IN  IF ~WellFormedObjectId(reservation_id) THEN [error |-> "InvalidId", found |-> 0, store |-> res]
        ELSE IF i = 0 THEN fail("ReservationNotFound")
        ELSE IF permission # "OK" THEN fail(permission)
        ELSE IF transition # "OK" THEN fail(transition)
        ELSE [error |-> "OK", found |-> i,
              store |-> [res EXCEPT ![i] =
                            UpdatedDocument(res[i], new_status, cancellation_reason, t)]]

----------------------------------------------------------------------------
(* The payment ledger (payments/services/payment_service.py). A payment is *)
(* named by its position in the ledger; the gateway is outside the program *)
(* and its answer is an input of the call.                                 *)

PaymentStatus == {"pending", "processing", "completed", "failed", "refunded", "cancelled"}

\* gateway.charge: accepted, declined (success false), or an exception
ChargeOutcomes == {"succeeded", "declined", "raised"}

\* gateway.refund: accepted, refused (success false), or an exception
RefundOutcomes == {"succeeded", "refused", "raised"}

\* gateway.verify: success with status succeeded, success with another
\* status, or no success
VerifyOutcomes == {"succeeded", "other", "unknown"}

NoGatewayId == 0

Payment(reservation_id, user, amount) ==
    [reservation_id |-> reservation_id, user |-> user, amount |-> amount,
     status |-> "pending", gateway_payment_id |-> NoGatewayId]

Transaction(payment, transaction_type, status, amount) ==
    [payment |-> payment, transaction_type |-> transaction_type, status |-> status,
     amount |-> amount]

\* Payment.objects.filter(reservation_id=..., status=COMPLETED).first()
CompletedPaymentExists(pays, reservation_id) ==
    \E i \in 1..Len(pays) :
        pays[i].reservation_id = reservation_id /\ pays[i].status = "completed"

\* find_one({'reservation_id': reservation_id}); 0 stands for no document
_get_reservation(res, reservation_id) ==
    LET hits == {i \in 1..Len(res) : res[i].reservation_id = reservation_id}
    IN  IF hits = {} THEN 0 ELSE CHOOSE i \in hits : \A j \in hits : i <= j

\* update_one by reservation_id: payment_status and updated_at, nothing
\* when no document matches
_update_reservation_payment_status(res, reservation_id, payment_status, t) ==
    LET i == _get_reservation(res, reservation_id)
    IN  IF i = 0 THEN res
        ELSE [res EXCEPT ![i].payment_status = payment_status, ![i].updated_at = t]

create_payment(pays, res, reservation_id, user) ==
    LET i == _get_reservation(res, reservation_id)
        fail(e) == [error |-> e, payments |-> pays]
    IN  IF i = 0 THEN fail("ReservationNotFound")
        ELSE IF res[i].guest_id # user THEN fail("NoPermission")
        ELSE IF res[i].status \notin {"pending", "confirmed"} THEN fail("NotPayable")
        ELSE IF CompletedPaymentExists(pays, reservation_id) THEN fail("CompletedPaymentExists")
        ELSE [error |-> "OK",
              payments |-> Append(pays, Payment(reservation_id, user, res[i].total_price))]

create_payment_for_checkout(pays, reservation_id, amount, user) ==
    IF amount <= 0 THEN [error |-> "AmountNotPositive", payments |-> pays]
    ELSE IF CompletedPaymentExists(pays, reservation_id)
    THEN [error |-> "CompletedPaymentExists", payments |-> pays]
    ELSE [error |-> "OK", payments |-> Append(pays, Payment(reservation_id, user, amount))]

\* a declined charge reported to the caller as a success
process_payment_reports_success(pays, txs, res, i, charge, store_up, t) ==
    IF charge = "succeeded"
    THEN [success |-> TRUE,
          payments |-> [pays EXCEPT ![i].status = "completed", ![i].gateway_payment_id = i],
          transactions |-> Append(txs, Transaction(i, "charge", "success", pays[i].amount)),
          store |-> _update_reservation_payment_status(res, pays[i].reservation_id, "paid", t)]
    ELSE [success |-> TRUE,
          payments |-> [pays EXCEPT ![i].status = "failed"],
          transactions |-> Append(txs, Transaction(i, "charge", "failed", pays[i].amount)),
          store |-> res]

\* process_payment on payment i: PROCESSING, the charge, then COMPLETED with
\* a charge transaction and the reservation marked paid, or FAILED with a
\* failed charge transaction. When the charge succeeded and the write to
\* the reservation store raises (store_up false), the atomic block is rolled
\* back and the except clause saves the payment, which carries the
\* gateway's id by then, as FAILED with a failed charge transaction.
process_payment(pays, txs, res, i, charge, store_up, t) ==
    IF charge = "succeeded" /\ ~store_up
    THEN [success |-> FALSE,
          payments |-> [pays EXCEPT ![i].status = "failed", ![i].gateway_payment_id = i],
          transactions |-> Append(txs, Transaction(i, "charge", "failed", pays[i].amount)),
          store |-> res]
    ELSE IF charge = "succeeded"
    THEN [success |-> TRUE,
          payments |-> [pays EXCEPT ![i].status = "completed", ![i].gateway_payment_id = i],
          transactions |-> Append(txs, Transaction(i, "charge", "success", pays[i].amount)),
          store |-> _update_reservation_payment_status(res, pays[i].reservation_id, "paid", t)]
    ELSE [success |-> FALSE,
          payments |-> [pays EXCEPT ![i].status = "failed"],
          transactions |-> Append(txs, Transaction(i, "charge", "failed", pays[i].amount)),
          store |-> res]

\* the reservation left as it was after an accepted refund
refund_payment_keeps_paid(pays, txs, res, i, amount, refund, t) ==
    LET refund_amount == IF amount = 0 THEN pays[i].amount ELSE amount
        fail(e) == [error |-> e, success |-> FALSE, payments |-> pays,
                    transactions |-> txs, store |-> res]
    IN  IF pays[i].status # "completed" THEN fail("NotRefundable")
        ELSE IF refund_amount > pays[i].amount THEN fail("RefundExceedsPayment")
        ELSE IF refund = "succeeded"
        THEN [error |-> "OK", success |-> TRUE,
              payments |-> [pays EXCEPT ![i].status = "refunded"],
              transactions |-> Append(txs, Transaction(i, "refund", "success", refund_amount)),
              store |-> res]
        ELSE [error |-> "OK", success |-> FALSE, payments |-> pays,
              transactions |-> Append(txs, Transaction(i, "refund", "failed", refund_amount)),
              store |-> res]

\* refund_payment on payment i; amount 0 stands for no amount given
\* (amount or payment.amount): only a COMPLETED payment, at most its amount;
\* an accepted refund makes the payment REFUNDED and the reservation
\* refunded, a refused or failing one records a failed refund transaction
refund_payment(pays, txs, res, i, amount, refund, t) ==
    LET refund_amount == IF amount = 0 THEN pays[i].amount ELSE amount
        fail(e) == [error |-> e, success |-> FALSE, payments |-> pays,
                    transactions |-> txs, store |-> res]
    IN  IF pays[i].status # "completed" THEN fail("NotRefundable")
        ELSE IF refund_amount > pays[i].amount THEN fail("RefundExceedsPayment")
        ELSE IF refund = "succeeded"
        THEN [error |-> "OK", success |-> TRUE,
              payments |-> [pays EXCEPT ![i].status = "refunded"],
              transactions |-> Append(txs, Transaction(i, "refund", "success", refund_amount)),
              store |-> _update_reservation_payment_status(res, pays[i].reservation_id,
                                                           "refunded", t)]
        ELSE [error |-> "OK", success |-> FALSE, payments |-> pays,
              transactions |-> Append(txs, Transaction(i, "refund", "failed", refund_amount)),
              store |-> res]

\* verify_payment on payment i: a payment the gateway reports as succeeded
\* becomes COMPLETED, if it is not, and its reservation is marked paid
verify_payment(pays, res, i, verification, t) ==
    IF pays[i].gateway_payment_id = NoGatewayId
    THEN [error |-> "NoGatewayId", success |-> FALSE, payments |-> pays, store |-> res]
    ELSE IF verification = "succeeded" /\ pays[i].status # "completed"
    THEN [error |-> "OK", success |-> TRUE,
          payments |-> [pays EXCEPT ![i].status = "completed"],
          store |-> _update_reservation_payment_status(res, pays[i].reservation_id, "paid", t)]
    ELSE [error |-> "OK", success |-> verification # "unknown", payments |-> pays,
          store |-> res]

----------------------------------------------------------------------------
(* State after construction: the clock at the start of the run, the two    *)
(* hotels, no reservation, no payment, no checkout in flight, no request    *)
(* in progress.                                                            *)

Procs == {"p1", "p2"}

IdleCheckout ==
    [stage |-> "idle", computed |-> NoBundle, guest_id |-> "None", reservation_id |-> Uuid(0)]

IdleProc ==
    [pc |-> "idle", seen |-> 0, check |-> "None", error |-> "None",
     document |-> get_default_document(0, NoTime)]

NoOp ==
    [op |-> "none", args |-> <<>>, error |-> "None", result |-> FALSE, found |-> 0,
     before |-> <<>>, at |-> NoTime]

Init ==
    /\ now = StartOfRun
    /\ hotels = InitialHotels
    /\ reservations = <<>>
    /\ payments = <<>>
    /\ transactions = <<>>
    /\ checkout = IdleCheckout
    /\ last = NoOp
    /\ procs = [p \in Procs |-> IdleProc]

\* uuid4 never repeats: the next one differs from every identifier in use
FreshUuid ==
    LET used == {reservations[i].reservation_id[2] : i \in 1..Len(reservations)}
                \cup {payments[i].reservation_id[2] : i \in 1..Len(payments)}
                \cup {checkout.reservation_id[2]}
                \cup {procs[p].document.reservation_id[2] : p \in Procs}
    IN  1 + CHOOSE n \in used : \A m \in used : m <= n

----------------------------------------------------------------------------
(* Handlers, each executed as one step *)

\* POST /api/reservations/: create_reservation and its insert_one
CreateReservation(reservation_data, guest_id) ==
    LET r == create_reservation(reservation_data, guest_id, reservations, hotels, now,
                                FreshUuid)
        w == insert_one(reservations, r.document)
        e == IF r.error = "OK" THEN w.error ELSE r.error
    IN  /\ last' = [op |-> "create_reservation",
                    args |-> [data |-> reservation_data, guest_id |-> guest_id],
                    error |-> e, result |-> e = "OK", found |-> 0,
                    before |-> reservations, at |-> now]
        /\ IF r.error = "OK"
           THEN reservations' = w.store
           ELSE UNCHANGED reservations
        /\ UNCHANGED <<now, hotels, checkout, procs, payments, transactions>>

\* the validation holds the room by storing a pending document
ValidateAndComputeHolding(reservation_data, guest_id) ==
    LET r == validate_and_compute_for_checkout(reservation_data, reservations, hotels, now)
        h == create_reservation(reservation_data, guest_id, reservations, hotels, now,
                                FreshUuid)
    IN  /\ checkout.stage = "idle"
        /\ last' = [op |-> "validate_and_compute",
                    args |-> [data |-> reservation_data, guest_id |-> guest_id],
                    error |-> r.error, result |-> r.error = "OK", found |-> 0,
                    before |-> reservations, at |-> now]
        /\ IF r.error = "OK"
           THEN /\ checkout' = [stage |-> "computed", computed |-> r.computed,
                                guest_id |-> guest_id, reservation_id |-> Uuid(FreshUuid + 1)]
                /\ reservations' = insert_one(reservations, h.document).store
           ELSE UNCHANGED <<checkout, reservations>>
        /\ UNCHANGED <<now, hotels, procs, payments, transactions>>

\* checkout, first step: validate_and_compute_for_checkout; on success the
\* caller draws the reservation_id and goes on to charge the guest
ValidateAndCompute(reservation_data, guest_id) ==
    LET r == validate_and_compute_for_checkout(reservation_data, reservations, hotels, now)
    IN  /\ checkout.stage = "idle"
        /\ last' = [op |-> "validate_and_compute",
                    args |-> [data |-> reservation_data, guest_id |-> guest_id],
                    error |-> r.error, result |-> r.error = "OK", found |-> 0,
                    before |-> reservations, at |-> now]
        /\ IF r.error = "OK"
           THEN checkout' = [stage |-> "computed", computed |-> r.computed,
                             guest_id |-> guest_id, reservation_id |-> Uuid(FreshUuid)]
           ELSE UNCHANGED checkout
        /\ UNCHANGED <<now, hotels, reservations, procs, payments, transactions>>

\* checkout, second step: the caller records the payment for the drawn
\* reservation_id and the computed total, and asks the gateway to charge it;
\* no reservation carries the id yet, and the store answers the update
charge_checkout(pays, txs, res, co, charge, t) ==
    LET c == create_payment_for_checkout(pays, co.reservation_id, co.computed.total_price,
                                         co.guest_id)
        p == process_payment(c.payments, txs, res, Len(c.payments), charge, TRUE, t)
    IN  IF c.error # "OK"
        THEN [error |-> c.error, success |-> FALSE, payments |-> pays,
              transactions |-> txs, store |-> res]
        ELSE [error |-> IF p.success THEN "OK" ELSE "ChargeFailed", success |-> p.success,
              payments |-> p.payments, transactions |-> p.transactions, store |-> p.store]

\* the charge succeeded: the checkout goes on to create the reservation
ChargeCheckout(charge) ==
    LET r == charge_checkout(payments, transactions, reservations, checkout, charge, now)
    IN  /\ checkout.stage = "computed"
        /\ r.success
        /\ payments' = r.payments
        /\ transactions' = r.transactions
        /\ reservations' = r.store
        /\ checkout' = [checkout EXCEPT !.stage = "charged"]
        /\ last' = [op |-> "charge_checkout",
                    args |-> [reservation_id |-> checkout.reservation_id, charge |-> charge],
                    error |-> r.error, result |-> TRUE, found |-> 0,
                    before |-> reservations, at |-> now]
        /\ UNCHANGED <<now, hotels, procs>>

\* the charge failed, or no payment could be recorded: the checkout ends
\* here and create_reservation_after_payment is not called
AbandonCheckout(charge) ==
    LET r == charge_checkout(payments, transactions, reservations, checkout, charge, now)
    IN  /\ checkout.stage = "computed"
        /\ ~r.success
        /\ payments' = r.payments
        /\ transactions' = r.transactions
        /\ reservations' = r.store
        /\ checkout' = IdleCheckout
        /\ last' = [op |-> "abandon_checkout",
                    args |-> [reservation_id |-> checkout.reservation_id, charge |-> charge],
                    error |-> r.error, result |-> FALSE, found |-> 0,
                    before |-> reservations, at |-> now]
        /\ UNCHANGED <<now, hotels, procs>>

\* a failed insert answered by refunding the charge
CreateAfterPaymentCompensating(store_up) ==
    LET w == IF store_up
             THEN insert_one(reservations,
                    create_reservation_after_payment(checkout.computed, checkout.guest_id,
                                                     checkout.reservation_id, now, FreshUuid))
             ELSE [error |-> "WriteFailed", store |-> reservations]
        i == CHOOSE k \in 1..Len(payments) :
                /\ payments[k].reservation_id = checkout.reservation_id
                /\ payments[k].status = "completed"
        r == refund_payment(payments, transactions, w.store, i, 0, "succeeded", now)
    IN  /\ checkout.stage = "charged"
        /\ reservations' = IF w.error = "OK" THEN w.store ELSE r.store
        /\ payments' = IF w.error = "OK" THEN payments ELSE r.payments
        /\ transactions' = IF w.error = "OK" THEN transactions ELSE r.transactions
        /\ checkout' = IdleCheckout
        /\ last' = [op |-> "create_after_payment",
                    args |-> [computed |-> checkout.computed, guest_id |-> checkout.guest_id,
                              reservation_id |-> checkout.reservation_id],
                    error |-> w.error, result |-> w.error = "OK", found |-> 0,
                    before |-> reservations, at |-> now]
        /\ UNCHANGED <<now, hotels, procs>>

\* checkout, last step after a successful charge:
\* create_reservation_after_payment and its insert_one, which the store
\* accepts or rejects (store_up); nothing is done about a rejected write
CreateAfterPayment(store_up) ==
    LET w == IF store_up
             THEN insert_one(reservations,
                    create_reservation_after_payment(checkout.computed, checkout.guest_id,
                                                     checkout.reservation_id, now, FreshUuid))
             ELSE [error |-> "WriteFailed", store |-> reservations]
    IN  /\ checkout.stage = "charged"
        /\ reservations' = w.store
        /\ checkout' = IdleCheckout
        /\ last' = [op |-> "create_after_payment",
                    args |-> [computed |-> checkout.computed, guest_id |-> checkout.guest_id,
                              reservation_id |-> checkout.reservation_id],
                    error |-> w.error, result |-> w.error = "OK", found |-> 0,
                    before |-> reservations, at |-> now]
        /\ UNCHANGED <<now, hotels, procs, payments, transactions>>

\* PATCH cancel / confirm / reject / complete: update_reservation_status
UpdateStatus(reservation_id, new_status, user_id, user_type, cancellation_reason) ==
    LET r == update_reservation_status(reservations, reservation_id, new_status, user_id,
                                       user_type, cancellation_reason, now)
    IN  /\ reservations' = r.store
        /\ last' = [op |-> "update_status",
                    args |-> [reservation_id |-> reservation_id, new_status |-> new_status,
                              user_id |-> user_id, user_type |-> user_type,
                              cancellation_reason |-> cancellation_reason],
                    error |-> r.error, result |-> r.error = "OK", found |-> r.found,
                    before |-> reservations, at |-> now]
        /\ UNCHANGED <<now, hotels, checkout, procs, payments, transactions>>

\* the errors the reservation service raises as ValueError
ValueErrors ==
    {"HotelNotFound", "RoomNotFound", "CheckInPast", "CheckOutNotAfter", "TooFarAhead",
     "NotAvailable", "OverCapacity", "ReservationNotFound", "NoPermission",
     "GuestsOnlyCancel", "OwnersOnlyConfirm", "InvalidTransition"}

\* the status of the response of the reservation views: the except clauses
\* answer every ValueError with 400 and every other exception with 500; the
\* cancel view answers a missing reason with 400 itself
ResponseStatus(error) ==
    IF error = "OK" THEN 200
    ELSE IF error \in ValueErrors \cup {"ReasonRequired"} THEN 400
    ELSE 500

\* PATCH cancel, the whole handler: the view refuses a request without a
\* reason before it calls update_reservation_status, as guest
CancelWithoutReasonCheck(pk, user_id, cancellation_reason) ==
    LET r == update_reservation_status(reservations, pk, "cancelled", user_id, "guest",
                                       cancellation_reason, now)
    IN  /\ reservations' = r.store
        /\ last' = [op |-> "cancel",
                    args |-> [reservation_id |-> pk, new_status |-> "cancelled",
                              user_id |-> user_id, user_type |-> "guest",
                              cancellation_reason |-> cancellation_reason],
                    error |-> r.error, result |-> r.error = "OK", found |-> r.found,
                    before |-> reservations, at |-> now]
        /\ UNCHANGED <<now, hotels, checkout, procs, payments, transactions>>

Cancel(pk, user_id, cancellation_reason) ==
    LET given == cancellation_reason \notin {NoReason, ""}
        r == IF given
             THEN update_reservation_status(reservations, pk, "cancelled", user_id, "guest",
                                            cancellation_reason, now)
             ELSE [error |-> "ReasonRequired", found |-> 0, store |-> reservations]
    IN  /\ reservations' = r.store
        /\ last' = [op |-> "cancel",
                    args |-> [reservation_id |-> pk, new_status |-> "cancelled",
                              user_id |-> user_id, user_type |-> "guest",
                              cancellation_reason |-> cancellation_reason],
                    error |-> r.error, result |-> r.error = "OK", found |-> r.found,
                    before |-> reservations, at |-> now]
        /\ UNCHANGED <<now, hotels, checkout, procs, payments, transactions>>

\* request.user.user_type of the users of the model
UserType(user) == IF user \in {"o1", "o2"} THEN "owner" ELSE "guest"

\* POST /api/payments/ with a payment token: create_payment, then
\* process_payment on the payment created
PayReservation(reservation_id, user, charge, store_up) ==
    LET c == create_payment(payments, reservations, reservation_id, user)
        p == process_payment(c.payments, transactions, reservations, Len(c.payments), charge,
                             store_up, now)
        e == IF c.error # "OK" THEN c.error ELSE IF p.success THEN "OK" ELSE "ChargeFailed"
    IN  /\ payments' = IF c.error = "OK" THEN p.payments ELSE payments
        /\ transactions' = IF c.error = "OK" THEN p.transactions ELSE transactions
        /\ reservations' = IF c.error = "OK" THEN p.store ELSE reservations
        /\ last' = [op |-> "process_payment",
                    args |-> [reservation_id |-> reservation_id, user_id |-> user,
                              charge |-> charge, store_up |-> store_up],
                    error |-> e, result |-> e = "OK", found |-> 0,
                    before |-> reservations, at |-> now]
        /\ UNCHANGED <<now, hotels, checkout, procs>>

\* POST /api/payments/{id}/verify/: only the payment's user, then verify_payment
VerifyPayment(i, user, verification) ==
    LET r == IF payments[i].user # user
             THEN [error |-> "NoPermission", success |-> FALSE, payments |-> payments,
                   store |-> reservations]
             ELSE verify_payment(payments, reservations, i, verification, now)
    IN  /\ i \in 1..Len(payments)
        /\ payments' = r.payments
        /\ reservations' = r.store
        /\ last' = [op |-> "verify_payment",
                    args |-> [payment |-> i, user_id |-> user, verification |-> verification],
                    error |-> r.error, result |-> r.success, found |-> 0,
                    before |-> reservations, at |-> now]
        /\ UNCHANGED <<now, hotels, transactions, checkout, procs>>

\* POST /api/payments/{id}/refund/: only an owner, and only the owner of
\* the payment's reservation, then refund_payment
RefundPayment(i, user, amount, refund) ==
    LET k == _get_reservation(reservations, payments[i].reservation_id)
        refused(e) == [error |-> e, success |-> FALSE, payments |-> payments,
                       transactions |-> transactions, store |-> reservations]
        r == IF UserType(user) # "owner" THEN refused("OwnersOnlyRefund")
             ELSE IF k = 0 THEN refused("NoPermission")
             ELSE IF reservations[k].owner_id # user THEN refused("NoPermission")
             ELSE refund_payment(payments, transactions, reservations, i, amount, refund, now)
    IN  /\ i \in 1..Len(payments)
        /\ payments' = r.payments
        /\ transactions' = r.transactions
        /\ reservations' = r.store
        /\ last' = [op |-> "refund_payment",
                    args |-> [payment |-> i, user_id |-> user, amount |-> amount,
                              refund |-> refund],
                    error |-> r.error, result |-> r.success, found |-> 0,
                    before |-> reservations, at |-> now]
        /\ UNCHANGED <<now, hotels, checkout, procs>>

\* GET check-availability: a read
CheckAvailability(hotel_id, room_id, check_in, check_out) ==
    /\ last' = [op |-> "check_availability",
                args |-> [hotel_id |-> hotel_id, room_id |-> room_id,
                          check_in |-> check_in, check_out |-> check_out],
                error |-> "OK",
                result |-> check_availability(reservations, hotel_id, room_id,
                                              check_in, check_out, <<>>),
                found |-> 0, before |-> reservations, at |-> now]
    /\ UNCHANGED <<now, hotels, reservations, checkout, procs, payments, transactions>>

\* update_hotel, cascaded to the reservations of the hotel
UpdateHotelCascading(hotel_id, update_data, owner_id) ==
    LET r == update_hotel(hotels, hotel_id, update_data, owner_id)
    IN  /\ hotels' = r.hotels
        /\ reservations' =
                [i \in 1..Len(reservations) |->
                    IF r.error = "OK" /\ reservations[i].hotel_id = hotel_id
                    THEN [reservations[i] EXCEPT !.owner_id = r.hotels[hotel_id].owner_id]
                    ELSE reservations[i]]
        /\ last' = [op |-> "update_hotel",
                    args |-> [hotel_id |-> hotel_id, update_data |-> update_data,
                              owner_id |-> owner_id],
                    error |-> r.error, result |-> r.error = "OK", found |-> 0,
                    before |-> reservations, at |-> now]
        /\ UNCHANGED <<now, checkout, procs, payments, transactions>>

\* a write to the hotel document by its owner: update_hotel
UpdateHotel(hotel_id, update_data, owner_id) ==
    LET r == update_hotel(hotels, hotel_id, update_data, owner_id)
    IN  /\ hotels' = r.hotels
        /\ last' = [op |-> "update_hotel",
                    args |-> [hotel_id |-> hotel_id, update_data |-> update_data,
                              owner_id |-> owner_id],
                    error |-> r.error, result |-> r.error = "OK", found |-> 0,
                    before |-> reservations, at |-> now]
        /\ UNCHANGED <<now, reservations, checkout, procs, payments, transactions>>

\* PATCH rooms/<room_id>: update_room
UpdateRoom(hotel_id, room_id, room_data, owner_id) ==
    LET r == update_room(hotels, hotel_id, room_id, room_data, owner_id)
    IN  /\ hotels' = r.hotels
        /\ last' = [op |-> "update_room",
                    args |-> [hotel_id |-> hotel_id, room_id |-> room_id,
                              room_data |-> room_data, owner_id |-> owner_id],
                    error |-> r.error, result |-> r.error = "OK", found |-> 0,
                    before |-> reservations, at |-> now]
        /\ UNCHANGED <<now, reservations, checkout, procs, payments, transactions>>

\* the clock advances by one slot
Tick ==
    /\ now < StartOfRun + MaxTicks
    /\ now' = now + 1
    /\ UNCHANGED <<hotels, reservations, checkout, last, procs, payments, transactions>>

----------------------------------------------------------------------------
(* create_reservation as the server runs it for parallel requests: the     *)
(* reads and checks up to the finished document are one step, insert_one   *)
(* a later one; nothing ties the two together.                             *)

\* request p reads the hotel, validates, counts the conflicts and builds its document
CreateCheck(p, reservation_data, guest_id) ==
    LET r == create_reservation(reservation_data, guest_id, reservations, hotels, now,
                                FreshUuid)
    IN  /\ procs[p].pc = "idle"
        /\ procs' = [procs EXCEPT ![p] =
                        [pc |-> IF r.error = "OK" THEN "checked" ELSE "done",
                         seen |-> Len(reservations), check |-> r.error,
                         error |-> r.error, document |-> r.document]]
        /\ UNCHANGED <<now, hotels, reservations, checkout, last, payments, transactions>>

\* request p inserts the document it built
CreateInsert(p) ==
    LET w == insert_one(reservations, procs[p].document)
    IN  /\ procs[p].pc = "checked"
        /\ reservations' = w.store
        /\ procs' = [procs EXCEPT ![p].pc = "done", ![p].error = w.error]
        /\ UNCHANGED <<now, hotels, checkout, last, payments, transactions>>

----------------------------------------------------------------------------
(* update_reservation_status as the server runs it for parallel requests:  *)
(* find_one and the validations against the document read are one step,    *)
(* update_one a later one; its filter is the _id alone.                    *)

\* request p reads the reservation, validates the caller and the transition
\* against what it read, and builds its update_data
UpdateCheck(p, reservation_id, new_status, user_id, user_type, cancellation_reason) ==
    LET r == update_reservation_status(reservations, reservation_id, new_status, user_id,
                                       user_type, cancellation_reason, now)
    IN  /\ procs[p].pc = "idle"
        /\ procs' = [procs EXCEPT ![p] =
                        [pc |-> IF r.error = "OK" THEN "validated" ELSE "done",
                         seen |-> r.found, check |-> r.error, error |-> r.error,
                         document |-> IF r.error = "OK" THEN r.store[r.found]
                                      ELSE get_default_document(0, NoTime)]]
        /\ UNCHANGED <<now, hotels, reservations, checkout, last, payments, transactions>>

\* request p writes its update_data with $set on the document of the _id it
\* read, whatever that document has become
UpdateWrite(p) ==
    LET d == procs[p].document
        reason == IF d.status = "cancelled" THEN d.cancellation_reason ELSE NoReason
    IN  /\ procs[p].pc = "validated"
        /\ reservations' = [reservations EXCEPT ![procs[p].seen] =
                                UpdatedDocument(@, d.status, reason, d.updated_at)]
        /\ procs' = [procs EXCEPT ![p].pc = "done"]
        /\ UNCHANGED <<now, hotels, checkout, last, payments, transactions>>

\* the request is answered and the worker takes the next one
Respond(p) ==
    /\ procs[p].pc = "done"
    /\ procs' = [procs EXCEPT ![p] = IdleProc]
    /\ UNCHANGED <<now, hotels, reservations, checkout, last, payments, transactions>>

----------------------------------------------------------------------------
(* POST /api/payments/ as the server runs it for parallel requests:        *)
(* create_payment is one step, process_payment on the payment created a    *)
(* later one.                                                              *)

\* request p creates its payment record
PayCreate(p, reservation_id, user) ==
    LET c == create_payment(payments, reservations, reservation_id, user)
    IN  /\ procs[p].pc = "idle"
        /\ payments' = c.payments
        /\ procs' = [procs EXCEPT ![p] =
                        [IdleProc EXCEPT !.pc = IF c.error = "OK" THEN "created" ELSE "done",
                                         !.seen = Len(c.payments), !.check = c.error,
                                         !.error = c.error]]
        /\ UNCHANGED <<now, hotels, reservations, checkout, last, transactions>>

\* request p, a checkout, creates its payment record for the id it was given
PayCreateForCheckout(p, reservation_id, amount, user) ==
    LET c == create_payment_for_checkout(payments, reservation_id, amount, user)
    IN  /\ procs[p].pc = "idle"
        /\ payments' = c.payments
        /\ procs' = [procs EXCEPT ![p] =
                        [IdleProc EXCEPT !.pc = IF c.error = "OK" THEN "created" ELSE "done",
                                         !.seen = Len(c.payments), !.check = c.error,
                                         !.error = c.error]]
        /\ UNCHANGED <<now, hotels, reservations, checkout, last, transactions>>

\* request p has its payment charged
PayProcess(p, charge, store_up) ==
    LET r == process_payment(payments, transactions, reservations, procs[p].seen, charge,
                             store_up, now)
    IN  /\ procs[p].pc = "created"
        /\ payments' = r.payments
        /\ transactions' = r.transactions
        /\ reservations' = r.store
        /\ procs' = [procs EXCEPT ![p].pc = "done",
                                  ![p].error = IF r.success THEN "OK" ELSE "ChargeFailed"]
        /\ UNCHANGED <<now, hotels, checkout, last>>

----------------------------------------------------------------------------
(* Requests of the atomic specification: every handler runs to completion  *)
(* before the next one starts.                                             *)

Booking(h, r, ci, co, g) ==
    [hotel_id |-> h, room_id |-> r, check_in |-> ci, check_out |-> co, number_of_guests |-> g]

\* day-aligned stays from today on: identical, adjacent, nested and partly
\* overlapping pairs all occur among them
StayRanges ==
    {<<T(Today, 0), T(Today + 1, 0)>>, <<T(Today, 0), T(Today + 2, 0)>>,
     <<T(Today + 1, 0), T(Today + 2, 0)>>, <<T(Today + 1, 0), T(Today + 3, 0)>>}

\* a stay that starts yesterday, a stay of no length
BadRanges ==
    {<<T(Today - 1, 0), T(Today + 1, 0)>>, <<T(Today + 1, 0), T(Today + 1, 0)>>}

OtherRooms == {<<"h1", "r2">>, <<"h2", "r1">>}

RoomsOnOffer == {<<"h1", "r1">>} \cup OtherRooms

GuestCounts == {1, 3}

Bookings ==
    {Booking("h1", "r1", rg[1], rg[2], g) : rg \in StayRanges \cup BadRanges, g \in GuestCounts}
    \cup {Booking(hr[1], hr[2], T(Today, 0), T(Today + 2, 0), 1) : hr \in OtherRooms}
    \cup {Booking("h9", "r1", T(Today, 0), T(Today + 1, 0), 1),
          Booking("h1", "r9", T(Today, 0), T(Today + 1, 0), 1)}

\* the guest cancels; the owner of the first hotel confirms, rejects or
\* completes, the owner of the second confirms
Decisions ==
    {<<"cancelled", "g1", "guest", "changed plans">>, <<"confirmed", "o2", "owner", NoReason>>}
    \cup {<<s, "o1", "owner", NoReason>> : s \in {"confirmed", "rejected", "completed"}}

Queries ==
    {<<"h1", "r1", rg[1], rg[2]>> : rg \in StayRanges}
    \cup {<<hr[1], hr[2], T(Today, 0), T(Today + 2, 0)>> : hr \in OtherRooms}

\* a request that would insert is only explored while the store has room
Within(error) == error = "OK" => Len(reservations) < MaxReservations

Next ==
    \/ \E b \in Bookings :
            /\ Within(create_reservation(b, "g1", reservations, hotels, now, 0).error)
            /\ CreateReservation(b, "g1")
    \/ \E i \in 1..MaxReservations, d \in Decisions :
            UpdateStatus(Oid(i), d[1], d[2], d[3], d[4])
    \/ \E q \in Queries : CheckAvailability(q[1], q[2], q[3], q[4])

Spec == Init /\ [][Next]_vars

----------------------------------------------------------------------------
(* The status machine on its own: two guests book one stay each, then any  *)
(* caller asks for any transition of any reservation, addressed by storage *)
(* key or by reservation_id.                                               *)

\* the bookings made, in this order
StatusBookings ==
    <<[data |-> Booking("h1", "r1", T(Today, 0), T(Today + 1, 0), 1), guest_id |-> "g1"],
      [data |-> Booking("h2", "r1", T(Today, 0), T(Today + 2, 0), 2), guest_id |-> "g2"],
      [data |-> Booking("h1", "r2", T(Today, 0), T(Today + 1, 0), 1), guest_id |-> "g1"]>>

Targets == {"confirmed", "cancelled", "rejected", "completed"}

Callers == {"g1", "g2", "o1", "o2"}

\* the roles the views pass
ActorRoles == {"guest", "owner"}

Reasons(new_status) ==
    IF new_status = "cancelled" THEN {NoReason, "changed plans"} ELSE {NoReason}

ReservationKeys == {Oid(i) : i \in 1..(MaxStatusReservations + 1)} \cup {Uuid(1)}

NextStatus ==
    \/ /\ Len(reservations) < MaxStatusReservations
       /\ Len(reservations) < Len(StatusBookings)
       /\ CreateReservation(StatusBookings[Len(reservations) + 1].data,
                            StatusBookings[Len(reservations) + 1].guest_id)
    \/ \E id \in ReservationKeys, s \in Targets, u \in Callers, role \in ActorRoles :
            \E reason \in Reasons(s) : UpdateStatus(id, s, u, role, reason)

SpecStatus == Init /\ [][NextStatus]_vars

----------------------------------------------------------------------------
(* The status endpoints as the views expose them: any user asks to cancel, *)
(* with or without a reason, and the owners decide; the clock advances.    *)

\* missing, empty, and two reasons given
CancelReasons == {NoReason, "", "changed plans", "found another hotel"}

NextViews ==
    \/ /\ Len(reservations) < MaxStatusReservations
       /\ CreateReservation(StatusBookings[Len(reservations) + 1].data,
                            StatusBookings[Len(reservations) + 1].guest_id)
    \/ \E id \in ReservationKeys, u \in Callers, reason \in CancelReasons :
            Cancel(id, u, reason)
    \/ \E id \in ReservationKeys, s \in Targets \ {"cancelled"}, u \in {"o1", "o2"} :
            UpdateStatus(id, s, u, "owner", NoReason)
    \/ Tick

SpecViews == Init /\ [][NextViews]_vars

----------------------------------------------------------------------------
(* Bookings with times of day, around today and around the one-year limit, *)
(* and two for a hotel and a room that do not exist.                       *)
(* A checkout in flight counts against the room left in the store.         *)

CheckIns ==
    {T(Today - 1, 1), T(Today, 0), T(Today, 1), T(Today + 1, 0),
     T(Today + MaxAdvanceDays, 0), T(Today + MaxAdvanceDays, 1),
     T(Today + MaxAdvanceDays + 1, 0)}

\* check_out from just before check_in to up to three slots later
StayOffsets == {0 - 1, 0, 1, 2, 3}

DatedBookings ==
    {Booking("h1", "r1", ci, ci + d, 2) : ci \in CheckIns, d \in StayOffsets}
    \cup {Booking("h1", "r1", ci, ci + 2, 3) : ci \in {T(Today, 1), T(Today + 1, 0)}}
    \cup {Booking("h9", "r1", T(Today, 0), T(Today + 1, 0), 1),
          Booking("h1", "r9", T(Today, 0), T(Today + 1, 0), 1)}

InFlight == IF checkout.stage \in {"computed", "charged"} THEN 1 ELSE 0

\* a checkout is only started while the ledger has room for its payment
WithinDatedPayments(error) == error = "OK" => Len(payments) < MaxDatedPayments

WithinDated(error) ==
    error = "OK" => Len(reservations) + InFlight < MaxDatedReservations

NextBooking ==
    \/ \E b \in DatedBookings :
            /\ WithinDated(create_reservation(b, "g1", reservations, hotels, now, 0).error)
            /\ CreateReservation(b, "g1")
    \/ \E b \in DatedBookings :
            /\ WithinDated(validate_and_compute_for_checkout(b, reservations, hotels, now).error)
            /\ WithinDatedPayments(validate_and_compute_for_checkout(b, reservations, hotels, now).error)
            /\ ValidateAndCompute(b, "g2")
    \/ \E charge \in {"succeeded"} : ChargeCheckout(charge)
    \/ \E charge \in {"succeeded", "declined"} : AbandonCheckout(charge)
    \/ \E store_up \in BOOLEAN : CreateAfterPayment(store_up)
    \/ Tick

SpecBooking == Init /\ [][NextBooking]_vars

----------------------------------------------------------------------------
(* The checkout flow: the second guest books through checkout, which       *)
(* validates, charges and only then persists, while the first guest books  *)
(* the same room directly.                                                 *)

MaxCheckoutReservations == 2

CheckoutGuest == "g2"

\* two stays that overlap, and one of less than a day, whose total is zero
CheckoutBookings ==
    {Booking("h1", "r1", T(Today, 0), T(Today + 1, 0), 1),
     Booking("h1", "r1", T(Today, 0), T(Today + 2, 0), 2),
     Booking("h1", "r1", T(Today + 2, 1), T(Today + 3, 0), 1)}

WithinCheckout(error) ==
    error = "OK" => Len(reservations) + InFlight < MaxCheckoutReservations

WithinPayments(error) == error = "OK" => Len(payments) < MaxPayments

NextCheckout ==
    \/ \E b \in CheckoutBookings :
            /\ WithinCheckout(create_reservation(b, "g1", reservations, hotels, now, 0).error)
            /\ CreateReservation(b, "g1")
    \/ \E b \in CheckoutBookings :
            /\ WithinCheckout(validate_and_compute_for_checkout(b, reservations, hotels, now).error)
            /\ WithinPayments(validate_and_compute_for_checkout(b, reservations, hotels, now).error)
            /\ ValidateAndCompute(b, CheckoutGuest)
    \/ \E charge \in ChargeOutcomes : ChargeCheckout(charge)
    \/ \E charge \in ChargeOutcomes : AbandonCheckout(charge)
    \/ \E store_up \in BOOLEAN : CreateAfterPayment(store_up)
    \/ \E b \in CheckoutBookings :
            CheckAvailability(b.hotel_id, b.room_id, b.check_in, b.check_out)

SpecCheckout == Init /\ [][NextCheckout]_vars

----------------------------------------------------------------------------
(* After the checkout: the payment endpoints and the status endpoints act  *)
(* on reservations booked through checkout.                                *)

MaxPaidReservations == 1

MaxTransactions == 3

PaidBookings == {Booking("h1", "r1", T(Today, 0), T(Today + 2, 0), 2)}

\* no amount given, a part of the payment, and more than any payment of the model
RefundAmounts == {0, 100, 1000}

WithinPaid(error) == error = "OK" => Len(reservations) + InFlight < MaxPaidReservations

NextPayments ==
    \/ \E b \in PaidBookings :
            /\ WithinPaid(validate_and_compute_for_checkout(b, reservations, hotels, now).error)
            /\ WithinPayments(validate_and_compute_for_checkout(b, reservations, hotels, now).error)
            /\ ValidateAndCompute(b, CheckoutGuest)
    \/ \E charge \in ChargeOutcomes : ChargeCheckout(charge)
    \/ \E charge \in ChargeOutcomes : AbandonCheckout(charge)
    \/ \E store_up \in BOOLEAN : CreateAfterPayment(store_up)
    \/ \E i \in 1..Len(reservations), d \in Decisions \cup {<<"cancelled", CheckoutGuest, "guest", "changed plans">>} :
            UpdateStatus(Oid(i), d[1], d[2], d[3], d[4])
    \/ \E i \in 1..Len(reservations), charge \in ChargeOutcomes, store_up \in BOOLEAN :
            /\ Len(payments) < MaxPayments
            /\ PayReservation(reservations[i].reservation_id, CheckoutGuest, charge, store_up)
    \/ \E i \in 1..Len(payments), u \in {"g1", CheckoutGuest}, v \in VerifyOutcomes :
            VerifyPayment(i, u, v)
    \/ \E i \in 1..Len(payments), u \in {"o1", "o2", CheckoutGuest}, a \in RefundAmounts,
          refund \in RefundOutcomes :
            /\ Len(transactions) < MaxTransactions
            /\ RefundPayment(i, u, a, refund)

SpecPayments == Init /\ [][NextPayments]_vars

----------------------------------------------------------------------------
(* Reservations of a hotel whose document is edited after they were made:  *)
(* the owner hands the hotel over and back, and reprices its first room.   *)

MaxHotelReservations == 2

HotelBookings ==
    {Booking("h1", "r1", T(Today, 0), T(Today + 1, 0), 1),
     Booking("h1", "r1", T(Today + 1, 0), T(Today + 3, 0), 2)}

Owners == {"o1", "o2"}

RaisedPrice == 150

RoomEdits == {[price_per_night |-> 100], [price_per_night |-> RaisedPrice]}

OwnerDecisions == {"confirmed", "rejected", "completed"}

WithinHotel(error) == error = "OK" => Len(reservations) < MaxHotelReservations

NextHotels ==
    \/ \E b \in HotelBookings :
            /\ WithinHotel(create_reservation(b, "g1", reservations, hotels, now, 0).error)
            /\ CreateReservation(b, "g1")
    \/ \E i \in 1..MaxHotelReservations, s \in OwnerDecisions, o \in Owners :
            UpdateStatus(Oid(i), s, o, "owner", NoReason)
    \/ \E o \in Owners, caller \in Owners :
            UpdateHotel("h1", [owner_id |-> o], caller)
    \/ \E d \in RoomEdits, caller \in Owners :
            UpdateRoom("h1", "r1", d, caller)

SpecHotels == Init /\ [][NextHotels]_vars

----------------------------------------------------------------------------
(* Bookings of rooms whose available flag the owner switches on and off.   *)

MaxFlagReservations == 2

FlagBookings ==
    {Booking("h1", "r1", T(Today, 0), T(Today + 1, 0), 1),
     Booking("h1", "r2", T(Today, 0), T(Today + 1, 0), 1),
     Booking("h1", "r2", T(Today, 0), T(Today + 2, 0), 2)}

WithinFlag(error) == error = "OK" => Len(reservations) + InFlight < MaxFlagReservations

NextFlag ==
    \/ \E b \in FlagBookings :
            /\ WithinFlag(create_reservation(b, "g1", reservations, hotels, now, 0).error)
            /\ CreateReservation(b, "g1")
    \/ \E b \in FlagBookings :
            /\ WithinPayments(validate_and_compute_for_checkout(b, reservations, hotels, now).error)
            /\ ValidateAndCompute(b, CheckoutGuest)
    \/ \E charge \in {"declined"} : AbandonCheckout(charge)
    \/ \E b \in FlagBookings :
            CheckAvailability(b.hotel_id, b.room_id, b.check_in, b.check_out)
    \/ \E r \in {"r1", "r2"}, flag \in BOOLEAN :
            UpdateRoom("h1", r, [available |-> flag], "o1")

SpecFlag == Init /\ [][NextFlag]_vars

----------------------------------------------------------------------------
(* Reservations made directly and paid afterwards: the gateway accepts,    *)
(* declines or fails, and the reservation store may reject the write of    *)
(* payment_status.                                                         *)

MaxPayReservations == 2

Payers == {"g1", "g2"}

NextPay ==
    \/ \E b \in HotelBookings :
            /\ Len(reservations) < MaxPayReservations
            /\ CreateReservation(b, "g1")
    \/ \E i \in 1..Len(reservations), u \in Payers, charge \in ChargeOutcomes,
          store_up \in BOOLEAN :
            /\ Len(payments) < MaxPayments
            /\ PayReservation(reservations[i].reservation_id, u, charge, store_up)
    \/ \E i \in 1..Len(reservations) :
            UpdateStatus(Oid(i), "cancelled", "g1", "guest", "changed plans")
    \/ Tick

SpecPay == Init /\ [][NextPay]_vars

----------------------------------------------------------------------------
(* Two payment requests in parallel for one reservation.                   *)

NextPayRace ==
    \/ /\ Len(reservations) < MaxStatusReservations
       /\ CreateReservation(StatusBookings[Len(reservations) + 1].data,
                            StatusBookings[Len(reservations) + 1].guest_id)
    \/ \E p \in Procs, i \in 1..Len(reservations), u \in Payers :
            /\ Len(payments) < MaxPayments
            /\ PayCreate(p, reservations[i].reservation_id, u)
    \/ \E p \in Procs, i \in 1..Len(reservations) :
            /\ Len(payments) < MaxPayments
            /\ PayCreateForCheckout(p, reservations[i].reservation_id,
                                    reservations[i].total_price, CheckoutGuest)
    \/ \E p \in Procs, charge \in ChargeOutcomes, store_up \in BOOLEAN :
            PayProcess(p, charge, store_up)
    \/ \E p \in Procs : Respond(p)

SpecPayRace == Init /\ [][NextPayRace]_vars

----------------------------------------------------------------------------
(* Two requests in parallel, each a create_reservation for the first room. *)

RacingBookings ==
    {Booking("h1", "r1", rg[1], rg[2], 1) : rg \in StayRanges}

NextRace ==
    \/ \E p \in Procs, b \in RacingBookings : CreateCheck(p, b, "g1")
    \/ \E p \in Procs : CreateInsert(p)

SpecRace == Init /\ [][NextRace]_vars

----------------------------------------------------------------------------
(* Two requests in parallel on the status of one reservation: its guest    *)
(* cancels while its owner decides; the clock advances.                    *)

RacingDecisions ==
    {<<"cancelled", "g1", "guest", "changed plans">>}
    \cup {<<s, "o1", "owner", NoReason>> : s \in {"confirmed", "rejected", "completed"}}

NextStatusRace ==
    \/ /\ Len(reservations) < MaxStatusReservations
       /\ CreateReservation(StatusBookings[Len(reservations) + 1].data,
                            StatusBookings[Len(reservations) + 1].guest_id)
    \/ \E p \in Procs, d \in RacingDecisions : UpdateCheck(p, Oid(1), d[1], d[2], d[3], d[4])
    \/ \E p \in Procs : UpdateWrite(p)
    \/ \E p \in Procs : Respond(p)
    \/ Tick

SpecStatusRace == Init /\ [][NextStatusRace]_vars

----------------------------------------------------------------------------
(* Vocabulary of the properties *)

Active(doc) == doc.status \in {"pending", "confirmed"}

Terminal == {"cancelled", "completed", "rejected"}

\* the half-open ranges [a, b) and [check_in, check_out) intersect
Overlaps(doc, check_in, check_out) == doc.check_in < check_out /\ check_in < doc.check_out

SameRoom(doc, hotel_id, room_id) == doc.hotel_id = hotel_id /\ doc.room_id = room_id

ForbiddenErrors == {"NoPermission", "GuestsOnlyCancel", "OwnersOnlyConfirm"}

DateErrors == {"CheckInPast", "CheckOutNotAfter", "TooFarAhead"}

InvalidInputErrors == DateErrors \cup {"OverCapacity"}

TransitionTable ==
    {<<"pending", "confirmed">>, <<"pending", "cancelled">>, <<"pending", "rejected">>,
     <<"confirmed", "cancelled">>, <<"confirmed", "completed">>}

\* the stored reservation that the last update_status call addressed by its
\* storage key, 0 if it addressed none that way
Addressed ==
    LET id == last.args.reservation_id
    IN  IF id[1] = "oid" /\ id[2] \in 1..Len(last.before) THEN id[2] ELSE 0

\* the caller of the last update_status is the guest of reservation doc asking
\* to cancel, or its owner asking to confirm, reject or complete
CorrectActor(doc) ==
    \/ /\ last.args.new_status = "cancelled"
       /\ last.args.user_type = "guest"
       /\ last.args.user_id = doc.guest_id
    \/ /\ last.args.new_status \in {"confirmed", "rejected", "completed"}
       /\ last.args.user_type = "owner"
       /\ last.args.user_id = doc.owner_id

----------------------------------------------------------------------------
\* C1: check_availability answers false exactly when some pending or
\* confirmed reservation of the same hotel and room has a stored range
\* [a, b) with a < check_out and check_in < b; a stay that only touches the
\* queried range at an end point is no conflict.
C1_AvailabilityIsHalfOpenOverlap ==
    last.op = "check_availability" =>
        (last.result = FALSE <=>
            \E i \in 1..Len(last.before) :
                /\ SameRoom(last.before[i], last.args.hotel_id, last.args.room_id)
                /\ Active(last.before[i])
                /\ Overlaps(last.before[i], last.args.check_in, last.args.check_out))

\* a query answered false while the same room also holds an active stay that
\* ends exactly where the query starts or starts exactly where it ends
C1_Witness ==
    /\ last.op = "check_availability"
    /\ last.result = FALSE
    /\ \E i \in 1..Len(last.before) :
            /\ SameRoom(last.before[i], last.args.hotel_id, last.args.room_id)
            /\ Active(last.before[i])
            /\ \/ last.before[i].check_out = last.args.check_in
               \/ last.before[i].check_in = last.args.check_out

----------------------------------------------------------------------------
\* C2: an update_status call by the correct actor on a reservation it
\* resolves succeeds exactly when (current status, new status) is in the
\* transition table; otherwise it fails with the invalid-transition error
\* and the store is unchanged.
C2_TransitionTableExact ==
    (last.op = "update_status" /\ Addressed # 0 /\ CorrectActor(last.before[Addressed])) =>
        IF <<last.before[Addressed].status, last.args.new_status>> \in TransitionTable
        THEN /\ last.error = "OK"
             /\ reservations[Addressed].status = last.args.new_status
        ELSE /\ last.error = "InvalidTransition"
             /\ reservations = last.before

\* the owner tried to reject a confirmed reservation and was refused
C2_Witness ==
    /\ last.op = "update_status"
    /\ Addressed # 0
    /\ CorrectActor(last.before[Addressed])
    /\ last.before[Addressed].status = "confirmed"
    /\ last.args.new_status = "rejected"
    /\ last.error = "InvalidTransition"

----------------------------------------------------------------------------
\* C3: update_status succeeds only for the reservation's guest asking to
\* cancel or its owner asking to confirm, reject or complete; any other
\* caller and role fails and leaves the store unchanged.
C3_OnlyAuthorisedCallers ==
    last.op = "update_status" =>
        LET authorised == Addressed # 0 /\ CorrectActor(last.before[Addressed])
        IN  /\ last.error = "OK" => authorised
            /\ ~authorised => (last.error # "OK" /\ reservations = last.before)

\* the owner of another hotel asked to confirm a pending reservation
C3_Witness ==
    /\ last.op = "update_status"
    /\ Addressed # 0
    /\ last.before[Addressed].status = "pending"
    /\ last.args.new_status = "confirmed"
    /\ last.args.user_type = "owner"
    /\ last.args.user_id \notin {last.before[Addressed].owner_id, last.before[Addressed].guest_id}
    /\ last.error = "NoPermission"
    /\ reservations = last.before

----------------------------------------------------------------------------
\* C4: whatever the current status, a guest asking for confirmed, completed
\* or rejected and an owner asking for cancelled get the role error, never
\* the invalid-transition error, and the store is unchanged.
C4_RoleGateBeforeTable ==
    (/\ last.op = "update_status"
     /\ Addressed # 0
     /\ \/ last.args.user_type = "guest" /\
           last.args.new_status \in {"confirmed", "completed", "rejected"}
        \/ last.args.user_type = "owner" /\ last.args.new_status = "cancelled") =>
        /\ last.error \in ForbiddenErrors
        /\ reservations = last.before

\* the reservation's own guest asked to confirm it after it was cancelled
C4_Witness ==
    /\ last.op = "update_status"
    /\ Addressed # 0
    /\ last.before[Addressed].status = "cancelled"
    /\ last.args.user_type = "guest"
    /\ last.args.user_id = last.before[Addressed].guest_id
    /\ last.args.new_status = "confirmed"
    /\ last.error = "GuestsOnlyCancel"

----------------------------------------------------------------------------
\* C5: a reservation that is cancelled, completed or rejected keeps that
\* status in every later state, and cancelling a cancelled reservation fails.
C5_TerminalStatusesStay ==
    /\ [][\A i \in 1..Len(reservations) :
            reservations[i].status \in Terminal =>
                reservations'[i].status = reservations[i].status]_vars
    /\ [](( /\ last.op = "update_status"
            /\ Addressed # 0
            /\ last.before[Addressed].status = "cancelled"
            /\ last.args.new_status = "cancelled") => last.error # "OK")

\* the guest cancelled a second time and got the invalid-transition error
C5_Witness ==
    /\ last.op = "update_status"
    /\ Addressed # 0
    /\ CorrectActor(last.before[Addressed])
    /\ last.before[Addressed].status = "cancelled"
    /\ last.args.new_status = "cancelled"
    /\ last.error = "InvalidTransition"
    /\ reservations[Addressed].status = "cancelled"

----------------------------------------------------------------------------
\* C6 as stated: a create_reservation for a room and a range that overlaps
\* an active reservation of that room fails with the conflict error and
\* persists nothing.
C6_OverlappingCreateGetsConflict ==
    (/\ last.op = "create_reservation"
     /\ last.args.data.check_in < last.args.data.check_out
     /\ \E i \in 1..Len(last.before) :
            /\ SameRoom(last.before[i], last.args.data.hotel_id, last.args.data.room_id)
            /\ Active(last.before[i])
            /\ Overlaps(last.before[i], last.args.data.check_in, last.args.data.check_out)) =>
        /\ last.error = "NotAvailable"
        /\ reservations = last.before

\* C6 amended: such a create_reservation fails and persists nothing; its
\* error is the conflict error whenever the request passes the checks made
\* before the availability check (hotel, room, dates), and the error of the
\* first of those checks that fails otherwise.
C6_OverlappingCreateFails ==
    (/\ last.op = "create_reservation"
     /\ last.args.data.check_in < last.args.data.check_out
     /\ \E i \in 1..Len(last.before) :
            /\ SameRoom(last.before[i], last.args.data.hotel_id, last.args.data.room_id)
            /\ Active(last.before[i])
            /\ Overlaps(last.before[i], last.args.data.check_in, last.args.data.check_out)) =>
        /\ last.error \in {"NotAvailable", "HotelNotFound", "RoomNotFound"} \cup DateErrors
        /\ reservations = last.before
        /\ (/\ last.args.data.hotel_id \in DOMAIN hotels
            /\ \E k \in 1..Len(hotels[last.args.data.hotel_id].rooms) :
                    hotels[last.args.data.hotel_id].rooms[k].room_id = last.args.data.room_id
            /\ Midnight(last.args.data.check_in) >= Midnight(now)
            /\ DayOf(last.args.data.check_in) <= DayOf(now) + MaxAdvanceDays)
           => last.error = "NotAvailable"

\* the same stay requested twice: the second request got the conflict error
C6_Witness ==
    /\ last.op = "create_reservation"
    /\ last.error = "NotAvailable"
    /\ reservations = last.before
    /\ \E i \in 1..Len(last.before) :
            /\ SameRoom(last.before[i], last.args.data.hotel_id, last.args.data.room_id)
            /\ last.before[i].status = "pending"
            /\ last.before[i].check_in = last.args.data.check_in
            /\ last.before[i].check_out = last.args.data.check_out

----------------------------------------------------------------------------
\* C7: two create_reservation requests that both check availability before
\* either inserts both pass the check and both insert: every request that
\* checked against the empty store passed, and every request that passed its
\* check has its document in the store once it is done, whatever the other
\* request inserted in between.
C7_RacingCreatesBothInsert ==
    \A p \in Procs :
        /\ (procs[p].pc # "idle" /\ procs[p].seen = 0) => procs[p].check = "OK"
        /\ (procs[p].pc = "done" /\ procs[p].check = "OK") =>
                /\ procs[p].error = "OK"
                /\ \E i \in 1..Len(reservations) : reservations[i] = procs[p].document

\* the double-booking: both requests checked the empty store, both are done,
\* and the store holds two pending stays of one room whose ranges intersect
C7_DoubleBooking ==
    /\ \A p \in Procs : procs[p].pc = "done" /\ procs[p].seen = 0 /\ procs[p].error = "OK"
    /\ \E i, j \in 1..Len(reservations) :
            /\ i # j
            /\ reservations[i].status = "pending"
            /\ reservations[j].status = "pending"
            /\ SameRoom(reservations[i], reservations[j].hotel_id, reservations[j].room_id)
            /\ Overlaps(reservations[i], reservations[j].check_in, reservations[j].check_out)

----------------------------------------------------------------------------
\* C8: every persisted reservation has nights equal to the number of
\* calendar days from check_in's date to check_out's date, and total_price
\* equal to nights * price_per_night, whatever the times of day.
C8_NightsAreCalendarDays ==
    \A i \in 1..Len(reservations) :
        /\ reservations[i].nights =
                DayOf(reservations[i].check_out) - DayOf(reservations[i].check_in)
        /\ reservations[i].total_price =
                reservations[i].nights * reservations[i].price_per_night

----------------------------------------------------------------------------
\* the room the last request asked for
RequestedRoom ==
    _get_room(_get_hotel(hotels, last.args.data.hotel_id), last.args.data.room_id)

\* the dates of the last request pass the rule of the claim, on the day the
\* request was made
DatesAcceptable ==
    /\ DayOf(last.args.data.check_in) >= DayOf(last.at)
    /\ last.args.data.check_out > last.args.data.check_in
    /\ DayOf(last.args.data.check_in) <= DayOf(last.at) + MaxAdvanceDays

----------------------------------------------------------------------------
\* the room the last request asked for was free for its range
RequestedRoomFree ==
    \A i \in 1..Len(last.before) :
        ~(/\ SameRoom(last.before[i], last.args.data.hotel_id, last.args.data.room_id)
          /\ Active(last.before[i])
          /\ Overlaps(last.before[i], last.args.data.check_in, last.args.data.check_out))

\* C10 as stated: a request with more guests than the room's capacity fails
\* with an invalid-input error and persists nothing; a request with as many
\* guests as the capacity is not refused for its guests; every stored
\* reservation has at most as many guests as its room's capacity.
C10_OverCapacityIsInvalidInput ==
    /\ (/\ last.op \in {"create_reservation", "validate_and_compute"}
        /\ RequestedRoom # NoRoom
        /\ last.args.data.number_of_guests > RequestedRoom.capacity) =>
            (last.error \in InvalidInputErrors /\ reservations = last.before)
    /\ (/\ last.op \in {"create_reservation", "validate_and_compute"}
        /\ RequestedRoom # NoRoom
        /\ last.args.data.number_of_guests = RequestedRoom.capacity) =>
            last.error # "OverCapacity"
    /\ \A i \in 1..Len(reservations) :
            reservations[i].number_of_guests <=
                _get_room(_get_hotel(hotels, reservations[i].hotel_id),
                          reservations[i].room_id).capacity

\* C10 amended: a request with more guests than the room's capacity fails
\* and persists nothing; its error is an invalid-input error when the room
\* is free for the range, and otherwise the conflict error or a date error,
\* availability being checked before capacity. The rest as stated.
C10_OverCapacityFails ==
    /\ (/\ last.op \in {"create_reservation", "validate_and_compute"}
        /\ RequestedRoom # NoRoom
        /\ last.args.data.number_of_guests > RequestedRoom.capacity) =>
            /\ last.error \in InvalidInputErrors \cup {"NotAvailable"}
            /\ reservations = last.before
            /\ RequestedRoomFree => last.error \in InvalidInputErrors
            /\ (RequestedRoomFree /\ DatesAcceptable) => last.error = "OverCapacity"
    /\ (/\ last.op \in {"create_reservation", "validate_and_compute"}
        /\ RequestedRoom # NoRoom
        /\ last.args.data.number_of_guests = RequestedRoom.capacity) =>
            last.error # "OverCapacity"
    /\ \A i \in 1..Len(reservations) :
            reservations[i].number_of_guests <=
                _get_room(_get_hotel(hotels, reservations[i].hotel_id),
                          reservations[i].room_id).capacity

\* three guests asked for the free room of two and were refused for it
C10_Witness ==
    /\ last.op \in {"create_reservation", "validate_and_compute"}
    /\ last.args.data.number_of_guests = RequestedRoom.capacity + 1
    /\ RequestedRoomFree
    /\ last.error = "OverCapacity"
    /\ reservations = last.before

----------------------------------------------------------------------------
\* C11: a cancel request with a missing or empty reason fails with an
\* invalid-input error and leaves the store unchanged; with a reason, asked
\* by the reservation's guest while the status is pending or confirmed, it
\* succeeds, sets cancelled_at to the time of the call and stores the reason
\* as given.
C11_CancelNeedsReason ==
    last.op = "cancel" =>
        /\ last.args.cancellation_reason \in {NoReason, ""} =>
                (last.error = "ReasonRequired" /\ reservations = last.before)
        /\ (/\ last.args.cancellation_reason \notin {NoReason, ""}
            /\ Addressed # 0
            /\ CorrectActor(last.before[Addressed])
            /\ <<last.before[Addressed].status, "cancelled">> \in TransitionTable) =>
                /\ last.error = "OK"
                /\ reservations[Addressed].status = "cancelled"
                /\ reservations[Addressed].cancelled_at = last.at
                /\ reservations[Addressed].cancellation_reason = last.args.cancellation_reason

\* the guest of a confirmed reservation asked to cancel it with an empty
\* reason, later than the reservation was made, and was refused
C11_Witness ==
    /\ last.op = "cancel"
    /\ last.args.cancellation_reason = ""
    /\ Addressed # 0
    /\ CorrectActor(last.before[Addressed])
    /\ last.before[Addressed].status = "confirmed"
    /\ last.at > last.before[Addressed].created_at
    /\ last.error = "ReasonRequired"
    /\ reservations = last.before

----------------------------------------------------------------------------
\* the document the last successful create added to the store
Created == reservations[Len(reservations)]

\* C12: a reservation persisted by create_reservation starts with status
\* pending and payment_status pending; one persisted by
\* create_after_payment starts with status pending and payment_status paid
\* and carries the reservation_id, dates, nights, prices and owner_id of the
\* computed bundle it was given.
C12_InitialStatuses ==
    /\ (last.op = "create_reservation" /\ last.error = "OK") =>
            /\ Len(reservations) = Len(last.before) + 1
            /\ Created.status = "pending"
            /\ Created.payment_status = "pending"
    /\ (last.op = "create_after_payment" /\ last.error = "OK") =>
            /\ Len(reservations) = Len(last.before) + 1
            /\ Created.status = "pending"
            /\ Created.payment_status = "paid"
            /\ Created.reservation_id = last.args.reservation_id
            /\ Created.check_in = last.args.computed.check_in
            /\ Created.check_out = last.args.computed.check_out
            /\ Created.nights = last.args.computed.nights
            /\ Created.price_per_night = last.args.computed.price_per_night
            /\ Created.total_price = last.args.computed.total_price
            /\ Created.owner_id = last.args.computed.owner_id

\* a checkout persisted its reservation, later than the bundle was computed
C12_Witness ==
    /\ last.op = "create_after_payment"
    /\ last.error = "OK"
    /\ Created.payment_status = "paid"
    /\ Created.nights >= 1
    /\ Created.total_price = Created.nights * hotels["h1"].rooms[1].price_per_night
    /\ Created.owner_id = hotels["h1"].owner_id
    /\ last.at > StartOfRun

----------------------------------------------------------------------------
\* what create_reservation makes of the request of the last call, on the
\* store and at the time of that call
SameRequestCreated ==
    create_reservation(last.args.data, last.args.guest_id, last.before, hotels, last.at, 0)

\* C13: validate_and_compute fails with the error create_reservation
\* reports on the same request and store, and when it succeeds
\* create_reservation succeeds too, with the same nights, price_per_night,
\* total_price and owner_id.
C13_ValidateAgreesWithCreate ==
    last.op = "validate_and_compute" =>
        /\ last.error = SameRequestCreated.error
        /\ last.error = "OK" =>
            /\ checkout.computed.nights = SameRequestCreated.document.nights
            /\ checkout.computed.price_per_night = SameRequestCreated.document.price_per_night
            /\ checkout.computed.total_price = SameRequestCreated.document.total_price
            /\ checkout.computed.owner_id = SameRequestCreated.document.owner_id

\* a checkout with one guest too many for the free room was refused for it
C13_Witness ==
    /\ last.op = "validate_and_compute"
    /\ last.error = "OverCapacity"
    /\ SameRequestCreated.error = "OverCapacity"
    /\ RequestedRoomFree

----------------------------------------------------------------------------
\* the reservation was booked through checkout
ThroughCheckout(doc) == doc.guest_id = CheckoutGuest

\* C14: in the checkout flow every reservation created through checkout has
\* a completed payment with its reservation_id, and a failed charge leaves
\* the reservations collection as it was.
C14_NoReservationWithoutCharge ==
    /\ \A i \in 1..Len(reservations) :
            ThroughCheckout(reservations[i]) =>
                \E k \in 1..Len(payments) :
                    /\ payments[k].reservation_id = reservations[i].reservation_id
                    /\ payments[k].status = "completed"
    /\ last.op = "abandon_checkout" => reservations = last.before

\* a charge was declined and left a failed payment and no reservation; a
\* later checkout was charged and has its reservation
C14_Witness ==
    /\ \E k \in 1..Len(payments) :
            /\ payments[k].status = "failed"
            /\ \A i \in 1..Len(reservations) :
                    reservations[i].reservation_id # payments[k].reservation_id
    /\ \E i \in 1..Len(reservations) :
            /\ ThroughCheckout(reservations[i])
            /\ reservations[i].payment_status = "paid"

----------------------------------------------------------------------------
\* C16: when the charge of a checkout succeeded and the insert of
\* create_after_payment fails, the state that results has a completed
\* payment for the checkout's reservation_id, no reservation with that
\* reservation_id, the reservations collection as it was, and no refund
\* transaction for that payment.
C16_NoCompensation ==
    (last.op = "create_after_payment" /\ last.error # "OK") =>
        /\ reservations = last.before
        /\ \A i \in 1..Len(reservations) :
                reservations[i].reservation_id # last.args.reservation_id
        /\ \E k \in 1..Len(payments) :
                /\ payments[k].reservation_id = last.args.reservation_id
                /\ payments[k].status = "completed"
                /\ \A x \in 1..Len(transactions) :
                        transactions[x].payment = k =>
                            transactions[x].transaction_type # "refund"

\* the store rejected the write of a charged checkout while the room was
\* still free for its stay
C16_Witness ==
    /\ last.op = "create_after_payment"
    /\ last.error = "WriteFailed"
    /\ \E k \in 1..Len(payments) :
            /\ payments[k].reservation_id = last.args.reservation_id
            /\ payments[k].status = "completed"
            /\ payments[k].amount = last.args.computed.total_price
    /\ check_availability(reservations, last.args.computed.hotel_id, last.args.computed.room_id,
                          last.args.computed.check_in, last.args.computed.check_out, <<>>)

----------------------------------------------------------------------------
----------------------------------------------------------------------------
\* the stored reservations that the id of the last update_status call names,
\* by storage key or by reservation_id
NamedByEitherId ==
    {i \in 1..Len(last.before) :
        \/ Oid(i) = last.args.reservation_id
        \/ last.before[i].reservation_id = last.args.reservation_id}

\* C17: update_status finds the reservation whose storage key or whose
\* reservation_id is the id given, and fails with the not-found error when
\* the id is neither.
C17_FoundByEitherId ==
    last.op = "update_status" =>
        IF NamedByEitherId = {}
        THEN last.error = "ReservationNotFound"
        ELSE /\ last.found \in NamedByEitherId
             /\ last.error \notin {"ReservationNotFound", "InvalidId"}

----------------------------------------------------------------------------
\* the fields of a reservation that no status update may touch
FrameFields ==
    {"reservation_id", "hotel_id", "room_id", "guest_id", "owner_id", "check_in", "check_out",
     "nights", "number_of_guests", "price_per_night", "total_price", "payment_status",
     "created_at"}

\* C18: a successful update_status changes, in the reservation it found,
\* status and updated_at, and besides them only cancelled_at and
\* cancellation_reason when the target is cancelled, only confirmed_at when
\* the target is confirmed, and nothing when it is rejected or completed;
\* payment_status, the dates, nights, the prices, guest_id, owner_id and
\* reservation_id stay as they were.
C18_UpdateFrame ==
    (last.op \in {"update_status", "cancel"} /\ last.error = "OK") =>
        LET old == last.before[last.found]
            new == reservations[last.found]
            target == last.args.new_status
        IN  /\ new.status = target
            /\ new.updated_at = last.at
            /\ \A f \in FrameFields : new[f] = old[f]
            /\ target = "cancelled" => (new.cancelled_at = last.at /\ new.confirmed_at = old.confirmed_at)
            /\ target = "confirmed" =>
                    /\ new.confirmed_at = last.at
                    /\ new.cancelled_at = old.cancelled_at
                    /\ new.cancellation_reason = old.cancellation_reason
            /\ target \in {"rejected", "completed"} =>
                    /\ new.confirmed_at = old.confirmed_at
                    /\ new.cancelled_at = old.cancelled_at
                    /\ new.cancellation_reason = old.cancellation_reason
                    /\ new.cancelled_at = NoTime

\* the owner completed a reservation confirmed earlier: confirmed_at is
\* still the time of the confirmation, updated_at is the time of the call
C18_Witness ==
    /\ last.op = "update_status"
    /\ last.error = "OK"
    /\ last.args.new_status = "completed"
    /\ reservations[last.found].confirmed_at # NoTime
    /\ reservations[last.found].confirmed_at < last.at
    /\ reservations[last.found].updated_at = last.at
    /\ reservations[last.found].cancelled_at = NoTime

----------------------------------------------------------------------------
\* every reservation that was stored for the room and overlaps the range
\* had been cancelled, rejected or completed
OnlyTerminalOverlap(hotel_id, room_id, check_in, check_out) ==
    \A i \in 1..Len(last.before) :
        (/\ SameRoom(last.before[i], hotel_id, room_id)
         /\ Overlaps(last.before[i], check_in, check_out)) =>
            last.before[i].status \in Terminal

\* C19: cancelled, rejected and completed reservations never block: when
\* every reservation overlapping a range on a room is cancelled, rejected or
\* completed, check_availability for the range answers true, and a
\* create_reservation for the room and range that an empty store would
\* accept succeeds.
C19_TerminalNeverBlocks ==
    /\ (/\ last.op = "check_availability"
        /\ OnlyTerminalOverlap(last.args.hotel_id, last.args.room_id,
                               last.args.check_in, last.args.check_out)) =>
            last.result = TRUE
    /\ (/\ last.op = "create_reservation"
        /\ OnlyTerminalOverlap(last.args.data.hotel_id, last.args.data.room_id,
                               last.args.data.check_in, last.args.data.check_out)
        /\ create_reservation(last.args.data, last.args.guest_id, <<>>, hotels,
                              last.at, 0).error = "OK") =>
            /\ last.error = "OK"
            /\ Len(reservations) = Len(last.before) + 1

\* a room was booked again for the very range of a reservation that had
\* been cancelled, rejected or completed
C19_Witness ==
    /\ last.op = "create_reservation"
    /\ last.error = "OK"
    /\ \E i \in 1..Len(last.before) :
            /\ SameRoom(last.before[i], last.args.data.hotel_id, last.args.data.room_id)
            /\ last.before[i].status \in Terminal
            /\ last.before[i].check_in = last.args.data.check_in
            /\ last.before[i].check_out = last.args.data.check_out

----------------------------------------------------------------------------
Reads == {"check_availability", "validate_and_compute"}

\* C20: check_availability and validate_and_compute never modify the
\* store: across either call, whatever it answers, the reservation
\* documents and the hotel documents, every field of each, are what they
\* were before the call.
C20_ReadsLeaveStore ==
    [][(last'.op \in Reads /\ last' # last) =>
            (reservations' = reservations /\ hotels' = hotels)]_vars

\* a validation that accepted a stay and an availability query answered
\* false, each made over a store that holds a reservation and still holds
\* exactly it
C20_Witness ==
    /\ last.op \in Reads
    /\ Len(last.before) > 0
    /\ reservations = last.before
    /\ hotels = InitialHotels
    /\ \/ last.op = "validate_and_compute" /\ last.error = "OK"
       \/ last.op = "check_availability" /\ last.result = FALSE

----------------------------------------------------------------------------
\* the fields a reservation copies from the hotel document at creation, and
\* what is computed from them
SnapshotFields == {"owner_id", "price_per_night", "total_price", "nights"}

\* C21: once a reservation is stored, a change of the hotel's owner_id or of
\* the room's price_per_night leaves its owner_id, price_per_night,
\* total_price and nights as they are in every later state, and
\* update_status lets an owner act exactly when the caller is the owner_id
\* stored in the reservation, whoever owns the hotel now.
C21_SnapshotAtCreation ==
    /\ [][\A i \in 1..Len(reservations) :
            /\ i <= Len(reservations')
            /\ \A f \in SnapshotFields : reservations'[i][f] = reservations[i][f]]_vars
    /\ [](/\ last.op = "update_status"
          /\ last.args.user_type = "owner"
          /\ NamedByEitherId # {}
          /\ WellFormedObjectId(last.args.reservation_id)
          => (last.error = "NoPermission" <=>
                last.args.user_id # last.before[last.found].owner_id))

\* the owner at the time of the booking confirmed it after the hotel had
\* passed to another owner and the room had been repriced
C21_Witness ==
    /\ last.op = "update_status"
    /\ last.error = "OK"
    /\ last.args.user_id = reservations[last.found].owner_id
    /\ hotels[reservations[last.found].hotel_id].owner_id # reservations[last.found].owner_id
    /\ _get_room(hotels[reservations[last.found].hotel_id],
                 reservations[last.found].room_id).price_per_night
            # reservations[last.found].price_per_night
    /\ reservations[last.found].total_price =
            reservations[last.found].nights * reservations[last.found].price_per_night

----------------------------------------------------------------------------
\* the hotel documents with the available flags of the rooms replaced
WithFlags(hs, flags) ==
    [h \in DOMAIN hs |->
        [hs[h] EXCEPT !.rooms =
            [i \in 1..Len(hs[h].rooms) |->
                [hs[h].rooms[i] EXCEPT !.available = flags[<<h, hs[h].rooms[i].room_id>>]]]]]

\* every setting of the flags of the rooms
FlagSettings == [RoomsOnOffer -> BOOLEAN]

\* C22: the outcome of check_availability, create_reservation and
\* validate_and_compute does not depend on the room's available flag: the
\* same request on a store that differs only in the flags gets the same
\* result or error and persists the same reservation; check_availability
\* answers by the overlapping reservations alone.
C22_FlagIsIgnored ==
    /\ last.op = "create_reservation" =>
            \A flags \in FlagSettings :
                LET n == IF last.error = "OK" THEN Created.reservation_id[2] ELSE 0
                    r == create_reservation(last.args.data, last.args.guest_id, last.before,
                                            WithFlags(hotels, flags), last.at, n)
                IN  /\ r.error = last.error
                    /\ reservations =
                            IF r.error = "OK" THEN Append(last.before, r.document)
                            ELSE last.before
    /\ last.op = "validate_and_compute" =>
            \A flags \in FlagSettings :
                LET r == validate_and_compute_for_checkout(last.args.data, last.before,
                                                           WithFlags(hotels, flags), last.at)
                IN  /\ r.error = last.error
                    /\ r.error = "OK" => checkout.computed = r.computed
                    /\ reservations = last.before
    /\ last.op = "check_availability" =>
            (last.result <=>
                \A i \in 1..Len(last.before) :
                    ~(/\ SameRoom(last.before[i], last.args.hotel_id, last.args.room_id)
                      /\ Active(last.before[i])
                      /\ Overlaps(last.before[i], last.args.check_in, last.args.check_out)))

\* a room flagged as not available was booked
C22_Witness ==
    /\ last.op = "create_reservation"
    /\ last.error = "OK"
    /\ ~_get_room(_get_hotel(hotels, Created.hotel_id), Created.room_id).available
    /\ Created.room_id = last.args.data.room_id

----------------------------------------------------------------------------
NotFoundErrors == {"HotelNotFound", "RoomNotFound", "ReservationNotFound"}

\* C23: each error kind of create_reservation and update_status reaches the
\* client under its own status category: a missing hotel, room or
\* reservation as not-found (404), a date or capacity violation as
\* bad-request (400), a failed availability check as conflict (409), an actor
\* or role mismatch as forbidden (403); no request for a reservation that
\* is missing, or named by its reservation_id, is answered as an internal
\* error (500).
C23_ErrorsKeepTheirCategory ==
    last.op \in {"create_reservation", "update_status", "cancel"} =>
        /\ last.error \in NotFoundErrors => ResponseStatus(last.error) = 404
        /\ last.error \in InvalidInputErrors => ResponseStatus(last.error) = 400
        /\ last.error = "NotAvailable" => ResponseStatus(last.error) = 409
        /\ last.error \in ForbiddenErrors => ResponseStatus(last.error) = 403
        /\ last.error # "OK" => ResponseStatus(last.error) # 500

----------------------------------------------------------------------------
\* the error of the first check of the claim's order that the last request
\* fails, "Date" standing for the date errors
FirstFailingCheck ==
    IF last.args.data.hotel_id \notin DOMAIN hotels THEN "HotelNotFound"
    ELSE IF RequestedRoom = NoRoom THEN "RoomNotFound"
    ELSE IF ~DatesAcceptable THEN "Date"
    ELSE IF ~RequestedRoomFree THEN "NotAvailable"
    ELSE IF last.args.data.number_of_guests > RequestedRoom.capacity THEN "OverCapacity"
    ELSE "OK"

\* C24: create_reservation checks, in this order, that the hotel exists,
\* the room exists, the dates are valid, the room is available and the
\* capacity suffices, and reports the error of the first check that fails:
\* invalid dates on an unavailable room get the date error, too many guests
\* on an unavailable room get the conflict error; a request that fails
\* persists nothing.
C24_FirstFailingCheckReported ==
    last.op = "create_reservation" =>
        /\ IF FirstFailingCheck = "Date"
           THEN last.error \in DateErrors
           ELSE last.error = FirstFailingCheck
        /\ last.error # "OK" => reservations = last.before

\* too many guests asked for a room that was taken for the range, the dates
\* being valid, and got the conflict error
C24_Witness ==
    /\ last.op = "create_reservation"
    /\ last.error = "NotAvailable"
    /\ DatesAcceptable
    /\ ~RequestedRoomFree
    /\ last.args.data.number_of_guests > RequestedRoom.capacity
    /\ reservations = last.before

----------------------------------------------------------------------------
\* C25: with every service operation executed atomically, no two
\* reservations of the same room with status pending or confirmed have
\* intersecting [check_in, check_out) ranges in any reachable state, also
\* when other bookings of the room come between a checkout's
\* validate_and_compute and its create_after_payment.
C25_NoActiveOverlap ==
    \A i, j \in 1..Len(reservations) :
        (/\ i # j
         /\ Active(reservations[i])
         /\ Active(reservations[j])
         /\ SameRoom(reservations[i], reservations[j].hotel_id, reservations[j].room_id)) =>
            ~Overlaps(reservations[i], reservations[j].check_in, reservations[j].check_out)

----------------------------------------------------------------------------
\* C26: when two update_status calls on a reservation interleave, each
\* reading, validating against what it read and then writing, the persisted
\* status still changes only along the transition table: a reservation
\* persisted as cancelled or rejected is never persisted as confirmed
\* later, and no reservation is confirmed or rejected while its
\* cancelled_at is set.
C26_RacingUpdatesFollowTable ==
    /\ [][\A i \in 1..Len(reservations) :
            reservations'[i].status # reservations[i].status =>
                <<reservations[i].status, reservations'[i].status>> \in TransitionTable]_vars
    /\ [](\A i \in 1..Len(reservations) :
            reservations[i].status \in {"confirmed", "rejected"} =>
                reservations[i].cancelled_at = NoTime)

----------------------------------------------------------------------------
\* C27: every reservation persisted by create_reservation has nights >= 1,
\* as the document schema requires, for every check_in and check_out that
\* pass date validation, those less than 24 hours apart included; hence its
\* total_price is positive when the room's price_per_night is.
C27_NightsAtLeastOne ==
    (last.op = "create_reservation" /\ last.error = "OK") =>
        /\ Created.nights >= 1
        /\ Created.price_per_night > 0 => Created.total_price > 0

----------------------------------------------------------------------------
\* the reservation the last payment request named, in the store before and
\* after the request
PaidFor == _get_reservation(last.before, last.args.reservation_id)

\* C28: process_payment never leaves the payment in PROCESSING: it ends
\* with the payment COMPLETED and the reservation's payment_status paid
\* exactly when the gateway's charge succeeded, and with the payment FAILED
\* and the reservation's payment_status unchanged exactly when the charge
\* was declined or the gateway raised; a payment whose charge succeeded is
\* never recorded as FAILED, also when the write of payment_status to the
\* reservation store fails.
C28_ChargedIsCompleted ==
    (last.op = "process_payment" /\ last.error \in {"OK", "ChargeFailed"}) =>
        LET payment == payments[Len(payments)]
            charged == last.args.charge = "succeeded"
        IN  /\ payment.status # "processing"
            /\ charged <=> (/\ payment.status = "completed"
                            /\ reservations[PaidFor].payment_status = "paid")
            /\ ~charged <=> (/\ payment.status = "failed"
                             /\ reservations[PaidFor].payment_status =
                                    last.before[PaidFor].payment_status)
            /\ charged => payment.status # "failed"

----------------------------------------------------------------------------
\* C29: at most one payment with status COMPLETED exists per reservation_id
\* in every reachable state, under any ordering and interleaving of
\* create_payment, create_payment_for_checkout and process_payment calls
\* for the reservation; creating a payment for a reservation that has a
\* completed payment fails and creates no payment record.
C29_OneCompletedPerReservation ==
    /\ [](\A i, j \in 1..Len(payments) :
            (/\ i # j
             /\ payments[i].reservation_id = payments[j].reservation_id
             /\ payments[i].status = "completed") => payments[j].status # "completed")
    /\ [][Len(payments') > Len(payments) =>
            ~CompletedPaymentExists(payments, payments'[Len(payments')].reservation_id)]_vars

----------------------------------------------------------------------------
\* the refunds of payment i that the gateway accepted
AcceptedRefunds(i) ==
    {k \in 1..Len(transactions) :
        /\ transactions[k].payment = i
        /\ transactions[k].transaction_type = "refund"
        /\ transactions[k].status = "success"}

====
